---- MODULE Spec2Model ----
(***************************************************************************)
(* A model of the tanstack_ai Python package: the chat orchestrator        *)
(* (chat.py, ChatEngine), the tool-call accumulator and the tool execution *)
(* policy engine (tool_manager.py), the Anthropic adapter                  *)
(* (anthropic_adapter.py), the provider event converter (converter.py)     *)
(* and the SSE formatter (sse.py).                                         *)
(*                                                                         *)
(* Representation.  Identifiers, tool names, finish reasons and error      *)
(* codes are TLA+ strings.  Text that the code concatenates, strips or     *)
(* parses (text deltas, tool-call arguments, JSON documents) is a sequence *)
(* of pieces, one character per piece wherever the code looks at           *)
(* characters.  An Optional[T] is a sequence of length 0 (None) or 1.      *)
(***************************************************************************)
EXTENDS Integers, Sequences, FiniteSets, TLC

(* ----------------------------- bounds ---------------------------------- *)

\* chunks one chat() invocation may receive from its adapter streams, all
\* streams together, the RUN_STARTED that opens each stream not counted
MaxChunks == 4

\* the loop strategies tried are max_iterations(1) .. max_iterations(MaxIter)
MaxIter == 2

\* the same for an invocation that is started on a history with tool calls
MaxResumeChunks == 2

\* provider events one chat() invocation may receive (Anthropic adapter)
MaxEvents == 4

\* events handed to one ToolCallManager by itself
MaxFed == 3

\* chunks one stream_chunks_to_sse generator may read
MaxSseChunks == 3

(* ------------------------ strings and JSON ----------------------------- *)

\* the string marker of an absent / None string-valued key
NONE == "<None>"

\* str.strip() removes leading and trailing whitespace
RECURSIVE LStrip(_)
LStrip(s) == IF s # <<>> /\ Head(s) = " " THEN LStrip(Tail(s)) ELSE s

RECURSIVE RStrip(_)
RStrip(s) ==
    IF s # <<>> /\ s[Len(s)] = " " THEN RStrip(SubSeq(s, 1, Len(s) - 1)) ELSE s

Strip(s) == RStrip(LStrip(s))

\* Python values: {} (an empty dict), an int, None, and {"error": msg}
PyDict == [t |-> "dict", n |-> 0, msg |-> <<>>]
PyInt(k) == [t |-> "int", n |-> k, msg |-> <<>>]
PyNone == [t |-> "none", n |-> 0, msg |-> <<>>]
PyErr(m) == [t |-> "error", n |-> 0, msg |-> m]

AllAre(s, c) == \A i \in 1..Len(s) : s[i] = c

RECURSIVE Ones(_)
Ones(k) == IF k = 0 THEN 0 ELSE 10 * Ones(k - 1) + 1

\* json.loads over the characters { } 1 x and blank: the JSON documents of
\* that alphabet are  ws* ( "{" ws* "}" | "1"+ ) ws* ; anything else raises
\* json.JSONDecodeError (ok = FALSE).
JsonLoads(s) ==
    LET t == Strip(s) IN
    IF Len(t) >= 2 /\ t[1] = "{" /\ t[Len(t)] = "}"
          /\ AllAre(SubSeq(t, 2, Len(t) - 1), " ")
      THEN [ok |-> TRUE, val |-> PyDict]
    ELSE IF Len(t) >= 1 /\ AllAre(t, "1")
      THEN [ok |-> TRUE, val |-> PyInt(Ones(Len(t)))]
    ELSE [ok |-> FALSE, val |-> PyNone]

RECURSIVE Digits(_)
Digits(k) == IF k < 10 THEN <<ToString(k)>>
             ELSE Digits(k \div 10) \o <<ToString(k % 10)>>

\* json.dumps of a Python value
JsonDumps(v) ==
    CASE v.t = "dict" -> <<"{", "}">>
      [] v.t = "int" -> Digits(v.n)
      [] v.t = "none" -> <<"n", "u", "l", "l">>
      [] v.t = "error" ->
            <<"{", "\"error\"", ":", " ", "\"">> \o v.msg \o <<"\"", "}">>

(* ------------------------------ tools ---------------------------------- *)

\* a Tool: its name, whether it has an execute function, needs_approval
Tool(n, e, a) == [name |-> n, execute |-> e, needs_approval |-> a]

SRV == <<"srv">>
APPR == <<"appr">>
CLI == <<"cli">>
CAPR == <<"capr">>
UNK == <<"unk">>
BLANK == <<" ">>

\* the registry used by the runs: a server tool, a server tool that needs
\* approval, a client tool, a client tool that needs approval
Registry == << Tool(SRV, TRUE, FALSE), Tool(APPR, TRUE, TRUE),
               Tool(CLI, FALSE, FALSE), Tool(CAPR, FALSE, TRUE) >>

\* a ToolCall {id, type: "function", function: {name, arguments}}
ToolCall(i, n, a) == [id |-> i, name |-> n, arguments |-> a]

\* what a tool's execute may do: return a value or raise
ToolReturns == {PyInt(7)}
ToolRaises == {<<"boom">>}

(* ------------------------- ToolCallManager ----------------------------- *)

\* the value of a key that the event does not carry
NoIndex == 0 - 1

\* _tool_calls_map is a dict: here the sequence of its entries in insertion
\* order, each the key (index) with the ToolCall stored under it
PosOfIndex(map, index) ==
    IF \E i \in 1..Len(map) : map[i].index = index
      THEN CHOOSE i \in 1..Len(map) : map[i].index = index
      ELSE 0

add_tool_call_start_event(map, event) ==
    LET index == IF event.index = NoIndex THEN Len(map) ELSE event.index
        entry == [index |-> index, id |-> event.toolCallId,
                  name |-> event.toolName, arguments |-> <<>>]
        pos == PosOfIndex(map, index)
    IN IF pos = 0 THEN Append(map, entry) ELSE [map EXCEPT ![pos] = entry]

\* an accumulator that appends the delta to every entry with the id
add_tool_call_args_event_every_match(map, event) ==
    [i \in 1..Len(map) |->
        IF map[i].id = event.toolCallId
          THEN [map[i] EXCEPT !.arguments = @ \o event.delta]
          ELSE map[i]]

add_tool_call_args_event(map, event) ==
    LET hits == {i \in 1..Len(map) : map[i].id = event.toolCallId} IN
    IF hits = {} THEN map
    ELSE LET first == CHOOSE i \in hits : \A j \in hits : i <= j
         IN [map EXCEPT ![first].arguments = @ \o event.delta]

IsCompleteCall(tc) == tc.id # "" /\ tc.name # <<>> /\ Strip(tc.name) # <<>>

\* a filter that does not strip the name
get_tool_calls_keeps_blank(map) ==
    LET calls == [i \in 1..Len(map) |->
                     ToolCall(map[i].id, map[i].name, map[i].arguments)]
        named(tc) == tc.id # "" /\ tc.name # <<>>
    IN SelectSeq(calls, named)

get_tool_calls(map) ==
    LET calls == [i \in 1..Len(map) |->
                     ToolCall(map[i].id, map[i].name, map[i].arguments)]
    IN SelectSeq(calls, IsCompleteCall)

has_tool_calls(map) == Len(get_tool_calls(map)) > 0

\* a clear() that leaves the accumulator as it is
clear_keeps(map) == map

clear(map) == <<>>

(* ------------------------- execute_tool_calls -------------------------- *)

ToolResult(id, name, result, state) ==
    [tool_call_id |-> id, tool_name |-> name, result |-> result, state |-> state]

ApprovalRequest(id, name, input, approval_id) ==
    [tool_call_id |-> id, tool_name |-> name, input |-> input,
     approval_id |-> approval_id]

ClientToolRequest(id, name, input) ==
    [tool_call_id |-> id, tool_name |-> name, input |-> input]

\* an approval id that is the bare tool-call id
ApprovalId_bare(id) == id

ApprovalId(id) == "approval_" \o id

\* tool_map = {tool.name: tool for tool in tools}: the last tool of a name wins
HasTool(tools, name) == \E i \in 1..Len(tools) : tools[i].name = name

LookupTool(tools, name) ==
    tools[CHOOSE i \in 1..Len(tools) :
            /\ tools[i].name = name
            /\ \A j \in 1..Len(tools) : tools[j].name = name => j <= i]

\* _execute_tool: the possible outcomes of tool.execute(input_data)
_execute_tool(tool, input_data) ==
    IF ~tool.execute
      THEN {[raised |-> TRUE, invoked |-> FALSE,
             val |-> PyErr(<<"Tool ">> \o tool.name
                             \o <<" does not have an execute function">>)]}
      ELSE {[raised |-> FALSE, invoked |-> TRUE, val |-> v] : v \in ToolReturns}
           \cup {[raised |-> TRUE, invoked |-> TRUE, val |-> PyErr(m)] :
                   m \in ToolRaises}

\* the state of one execute_tool_calls pass: the three lists, whether the
\* pass raised, the calls whose execute was invoked (in order), those whose
\* execute raised, and the log of when each execute was awaited and when it
\* came back
ExecStart ==
    [raised |-> FALSE, results |-> <<>>, needs_approval |-> <<>>,
     needs_client_execution |-> <<>>, executed |-> <<>>, raisers |-> <<>>,
     ops |-> <<>>]

Op(op, id) == [op |-> op, id |-> id]

\* a result put at the front of the list
AddResult_front(st, r) == [st EXCEPT !.results = <<r>> \o @]

AddResult(st, r) == [st EXCEPT !.results = Append(@, r)]

\* an execute that is started and not awaited
RunTool_detached(st, tc, tool, input_data) ==
    { [st EXCEPT !.executed = Append(@, tc.id),
                 !.ops = Append(@, Op("execute_start", tc.id)),
                 !.results = Append(@, ToolResult(tc.id, tc.name, PyNone, NONE))] }

\* an exception of execute that is not caught
RunTool_propagates(st, tc, tool, input_data) ==
    { IF o.raised
        THEN [st EXCEPT !.raised = TRUE,
                        !.executed = Append(@, tc.id),
                        !.raisers = Append(@, tc.id),
                        !.ops = @ \o <<Op("execute_start", tc.id),
                                       Op("execute_end", tc.id)>>]
        ELSE [st EXCEPT !.executed = Append(@, tc.id),
                        !.ops = @ \o <<Op("execute_start", tc.id),
                                       Op("execute_end", tc.id)>>,
                        !.results = Append(@, ToolResult(tc.id, tc.name, o.val, NONE))]
      : o \in _execute_tool(tool, input_data) }

\* try: result = await _execute_tool(...) except Exception as e: ...
RunTool(st, tc, tool, input_data) ==
    { LET st1 == IF o.invoked
                   THEN [st EXCEPT !.executed = Append(@, tc.id),
                                   !.raisers = IF o.raised THEN Append(@, tc.id)
                                               ELSE @,
                                   !.ops = @ \o <<Op("execute_start", tc.id),
                                                  Op("execute_end", tc.id)>>]
                   ELSE st
      IN IF o.raised
           THEN AddResult(st1, ToolResult(tc.id, tc.name, o.val, "output-error"))
           ELSE AddResult(st1, ToolResult(tc.id, tc.name, o.val, NONE))
      : o \in _execute_tool(tool, input_data) }

\* a decline that is not honoured: the tool is run all the same
Declined_runs(st, tc) ==
    [st EXCEPT !.executed = Append(@, tc.id),
               !.results = Append(@, ToolResult(tc.id, tc.name, PyInt(7), NONE))]

Declined(st, tc) ==
    AddResult(st, ToolResult(tc.id, tc.name,
                             PyErr(<<"User declined tool execution">>),
                             "output-error"))

\* a client branch that asks for execution whatever the caller supplied
ClientOutcome_always_asks(st, tc, input_data, client_results) ==
    [st EXCEPT !.needs_client_execution =
                  Append(@, ClientToolRequest(tc.id, tc.name, input_data))]

ClientOutcome(st, tc, input_data, client_results) ==
    IF tc.id \in DOMAIN client_results
      THEN AddResult(st, ToolResult(tc.id, tc.name, client_results[tc.id], NONE))
      ELSE [st EXCEPT !.needs_client_execution =
                         Append(@, ClientToolRequest(tc.id, tc.name, input_data))]

\* an approval request that also leaves a placeholder result
NeedApproval_and_result(st, tc, input_data) ==
    [st EXCEPT !.needs_approval =
                  Append(@, ApprovalRequest(tc.id, tc.name, input_data,
                                            ApprovalId(tc.id))),
               !.results = Append(@, ToolResult(tc.id, tc.name, PyNone, NONE))]

NeedApproval(st, tc, input_data) ==
    [st EXCEPT !.needs_approval =
        Append(@, ApprovalRequest(tc.id, tc.name, input_data, ApprovalId(tc.id)))]

\* an unknown tool that is a hard failure
UnknownTool_raises(st, tc) == [st EXCEPT !.raised = TRUE]

\* if not tool: an output-error result, and on to the next call
UnknownTool(st, tc) ==
    AddResult(st, ToolResult(tc.id, tc.name,
                             PyErr(<<"Unknown tool: ">> \o tc.name),
                             "output-error"))

\* arguments that do not parse reported as an output-error result
BadArguments_as_result(st, tc) ==
    [st EXCEPT !.results =
        Append(@, ToolResult(tc.id, tc.name,
                             PyErr(<<"Failed to parse tool arguments as JSON">>),
                             "output-error"))]

\* except json.JSONDecodeError: raise ValueError(...)
BadArguments(st, tc) == [st EXCEPT !.raised = TRUE]

\* the body of the for loop, for one tool call
ExecuteOne(st, tc, tools, approvals, client_results) ==
    IF ~HasTool(tools, tc.name) THEN {UnknownTool(st, tc)}
    ELSE
    LET tool == LookupTool(tools, tc.name)
        stripped == Strip(tc.arguments)
        args_str == IF stripped = <<>> THEN <<"{", "}">> ELSE stripped
        parsed == JsonLoads(args_str)
        input_data == parsed.val
        approval_id == ApprovalId(tc.id)
    IN
    IF ~parsed.ok THEN {BadArguments(st, tc)}
    ELSE IF ~tool.execute THEN
        IF tool.needs_approval THEN
            IF approval_id \in DOMAIN approvals THEN
                IF approvals[approval_id]
                  THEN {ClientOutcome(st, tc, input_data, client_results)}
                  ELSE {Declined(st, tc)}
            ELSE {NeedApproval(st, tc, input_data)}
        ELSE {ClientOutcome(st, tc, input_data, client_results)}
    ELSE IF tool.needs_approval THEN
        IF approval_id \in DOMAIN approvals THEN
            IF approvals[approval_id]
              THEN RunTool(st, tc, tool, input_data)
              ELSE {Declined(st, tc)}
        ELSE {NeedApproval(st, tc, input_data)}
    ELSE RunTool(st, tc, tool, input_data)

RECURSIVE ExecuteFrom(_, _, _, _, _)
ExecuteFrom(st, tool_calls, tools, approvals, client_results) ==
    IF tool_calls = <<>> \/ st.raised THEN {st}
    ELSE UNION { ExecuteFrom(s, Tail(tool_calls), tools, approvals, client_results)
                   : s \in ExecuteOne(st, Head(tool_calls), tools, approvals,
                                      client_results) }

EmptyDict == [k \in {} |-> TRUE]

\* execute_tool_calls: the set of its possible outcomes
execute_tool_calls(tool_calls, tools, approvals, client_results) ==
    ExecuteFrom(ExecStart, tool_calls, tools, approvals, client_results)

(* ---------------------------- AG-UI events ----------------------------- *)

\* an event (StreamChunk) of the given type, no other key set
Ev(type) ==
    [type |-> type, toolCallId |-> "", toolName |-> <<>>, index |-> NoIndex,
     delta |-> <<>>, content |-> <<>>, finishReason |-> NONE, code |-> NONE,
     args |-> <<>>, name |-> "", approvalId |-> "", input |-> PyNone,
     result |-> <<>>, stepId |-> 0]

RunStarted == Ev("RUN_STARTED")
TextContent(delta, content) ==
    [Ev("TEXT_MESSAGE_CONTENT") EXCEPT !.delta = delta, !.content = content]
ToolCallStart(id, name, index) ==
    [Ev("TOOL_CALL_START") EXCEPT !.toolCallId = id, !.toolName = name,
                                  !.index = index]
ToolCallArgs(id, delta, args) ==
    [Ev("TOOL_CALL_ARGS") EXCEPT !.toolCallId = id, !.delta = delta,
                                 !.args = args]
RunFinished(reason) == [Ev("RUN_FINISHED") EXCEPT !.finishReason = reason]
RunError(code) == [Ev("RUN_ERROR") EXCEPT !.code = code]

\* a ModelMessage; content is Optional (<<>> is None, <<text>> a string)
Msg(role, content, toolCalls, toolCallId) ==
    [role |-> role, content |-> content, toolCalls |-> toolCalls,
     toolCallId |-> toolCallId]

(* -------------------- AnthropicAdapter.chat_stream -------------------- *)

\* a provider (Anthropic Messages API) stream event; type "exception" stands
\* for the client raising instead of delivering an event
PEv(type) ==
    [type |-> type, block_type |-> NONE, id |-> "", name |-> <<>>,
     delta_type |-> NONE, text |-> <<>>, stop_reason |-> NONE, code |-> NONE]

\* lines 346-349: the finish reason of a message_delta
MapDeltaStopReason(stop_reason) ==
    CASE stop_reason = "end_turn" -> "stop"
      [] stop_reason = "tool_use" -> "tool_calls"
      [] OTHER -> "stop"

\* lines 373-379: the finish reason of message_stop, from the final message
MapFinalStopReason(stop_reason) ==
    CASE stop_reason = "end_turn" -> "stop"
      [] stop_reason = "max_tokens" -> "length"
      [] stop_reason = "tool_use" -> "tool_calls"
      [] OTHER -> "stop"

\* json.loads(tool_call["input"]) when the input is non-empty, {} on failure
ParsedInput(input) ==
    IF input # <<>> /\ JsonLoads(input).ok THEN JsonLoads(input).val ELSE PyDict

\* the tool call at current_tool_index, when there is one
HasCurrentTool(a) == a.index + 1 \in 1..Len(a.tool_calls)

StartOf(a) ==
    ToolCallStart(a.tool_calls[a.index + 1].id, a.tool_calls[a.index + 1].name,
                  a.index)

\* the body of the `async for event in stream` loop after the RUN_STARTED
\* check: the new locals and the chunks yielded
AnthropicBody(a, ev) ==
    CASE ev.type = "content_block_start" /\ ev.block_type = "tool_use" ->
           [a |-> [a EXCEPT !.index = @ + 1, !.id = ev.id,
                            !.tool_calls = Append(@, [id |-> ev.id, name |-> ev.name,
                                                      input |-> <<>>,
                                                      started |-> FALSE])],
            yields |-> <<>>]
      [] ev.type = "content_block_start" /\ ev.block_type = "thinking" ->
           [a |-> [a EXCEPT !.accumulated_thinking = <<>>, !.steps = @ + 1,
                            !.step_id = a.steps + 1],
            yields |-> << [Ev("STEP_STARTED") EXCEPT !.stepId = a.steps + 1] >>]
      [] ev.type = "content_block_delta" /\ ev.delta_type = "text_delta" ->
           [a |-> [a EXCEPT !.has_emitted_text_message_start = TRUE,
                            !.accumulated_content = @ \o ev.text],
            yields |-> (IF a.has_emitted_text_message_start THEN <<>>
                        ELSE << Ev("TEXT_MESSAGE_START") >>)
                       \o << TextContent(ev.text, a.accumulated_content \o ev.text) >>]
      [] ev.type = "content_block_delta" /\ ev.delta_type = "thinking_delta" ->
           [a |-> [a EXCEPT !.accumulated_thinking = @ \o ev.text,
                            !.steps = IF a.step_id = 0 THEN @ + 1 ELSE @],
            yields |-> << [Ev("STEP_FINISHED") EXCEPT
                             !.stepId = IF a.step_id # 0 THEN a.step_id
                                        ELSE a.steps + 1,
                             !.delta = ev.text,
                             !.content = a.accumulated_thinking \o ev.text] >>]
      [] ev.type = "content_block_delta" /\ ev.delta_type = "input_json_delta"
           /\ HasCurrentTool(a) ->
           LET tc == a.tool_calls[a.index + 1] IN
           [a |-> [a EXCEPT !.tool_calls[a.index + 1] =
                               [tc EXCEPT !.started = TRUE, !.input = @ \o ev.text]],
            yields |-> (IF tc.started THEN <<>> ELSE << StartOf(a) >>)
                       \o << ToolCallArgs(tc.id, ev.text, tc.input \o ev.text) >>]
      [] ev.type = "content_block_stop" ->
           LET tool_part ==
                 IF HasCurrentTool(a)
                   THEN LET tc == a.tool_calls[a.index + 1] IN
                        (IF tc.started THEN <<>> ELSE << StartOf(a) >>)
                        \o << [Ev("TOOL_CALL_END") EXCEPT
                                 !.toolCallId = tc.id, !.toolName = tc.name,
                                 !.input = ParsedInput(tc.input)] >>
                   ELSE <<>>
               text_part ==
                 IF a.has_emitted_text_message_start /\ a.accumulated_content # <<>>
                   THEN << Ev("TEXT_MESSAGE_END") >> ELSE <<>>
           IN [a |-> IF HasCurrentTool(a)
                       THEN [a EXCEPT !.tool_calls[a.index + 1].started = TRUE]
                       ELSE a,
               yields |-> tool_part \o text_part]
      [] ev.type = "message_delta" /\ ev.stop_reason # NONE ->
           [a |-> [a EXCEPT !.stop_reason = ev.stop_reason],
            yields |-> IF ev.stop_reason = "max_tokens"
                         THEN << RunError("max_tokens") >>
                         ELSE << RunFinished(MapDeltaStopReason(ev.stop_reason)) >>]
      [] ev.type = "message_stop" ->
           [a |-> [a EXCEPT !.ended = TRUE],
            yields |-> << RunFinished(MapFinalStopReason(a.stop_reason)) >>]
      [] OTHER -> [a |-> a, yields |-> <<>>]

\* chat_stream resumed until it next waits for its provider: the new locals
\* and the chunks yielded.  The client raising ends the generator with a
\* RUN_ERROR carrying getattr(e, "code", None).
AnthropicStep(a, ev) ==
    IF ev.type = "exception"
      THEN [a |-> [a EXCEPT !.ended = TRUE], yields |-> << RunError(ev.code) >>]
      ELSE LET b == AnthropicBody([a EXCEPT !.has_emitted_run_started = TRUE], ev)
           IN [a |-> b.a,
               yields |-> (IF a.has_emitted_run_started THEN <<>>
                           ELSE << RunStarted >>) \o b.yields]

(* ------------------------------ ChatEngine ----------------------------- *)

VARIABLES
    messages,               \* self.messages
    tools,                  \* self.tools
    max_iter,               \* self.loop_strategy is max_iterations(max_iter)
    adapter,                \* self.adapter: "stub" or "anthropic"
    supplied,               \* the approvals and client results the caller holds
    iteration_count,        \* self.iteration_count
    last_finish_reason,     \* self.last_finish_reason (NONE is None)
    accumulated_content,    \* self.accumulated_content
    finished_event,         \* self.finished_event (Optional)
    should_emit_stream_end, \* self.should_emit_stream_end
    early_termination,      \* self.early_termination
    tool_phase,             \* self.tool_phase
    cycle_phase,            \* self.cycle_phase
    tool_calls_map,         \* self.tool_call_manager._tool_calls_map
    pc,                     \* where the chat() generator stands
    stream,                 \* the adapter stream being read: its local state
    out,                    \* the chunks chat() has yielded, in order
    hist,                   \* what chat() has done so far (observations)
    pass,                   \* an execute_tool_calls call made by itself
    converter,              \* a StreamChunkConverter: its attributes
    converted,              \* the chunks its calls have returned, in order
    sse                     \* a stream_chunks_to_sse generator: what it read and yielded

vars == <<messages, tools, max_iter, adapter, supplied, iteration_count, last_finish_reason,
          accumulated_content, finished_event, should_emit_stream_end,
          early_termination, tool_phase, cycle_phase, tool_calls_map, pc,
          stream, out, hist, pass, converter, converted, sse>>

\* the state of a ChatEngine and of the adapter stream it reads
engine == <<messages, tools, max_iter, adapter, supplied, iteration_count,
            last_finish_reason, accumulated_content, finished_event,
            should_emit_stream_end, early_termination, tool_phase, cycle_phase,
            tool_calls_map, pc, stream, out, hist>>

\* the state that ChatEngine.chat does not touch
apart == <<pass, converter, converted, sse>>

PROCESS_CHAT == "processChat"
EXECUTE_TOOL_CALLS == "executeToolCalls"
CONTINUE == "continue"
STOP == "stop"
WAIT == "wait"

\* _prepend_system_prompts
_prepend_system_prompts(msgs, system_prompts, default_prompts) ==
    LET prompts == IF system_prompts # <<>> THEN system_prompts ELSE default_prompts
    IN [i \in 1..Len(prompts) |-> Msg("system", <<prompts[i]>>, <<>>, "")] \o msgs

\* max_iterations(n): continue while iterationCount < n
max_iterations(n, state) == state.iterationCount < n

\* a loop that consults only the tool phase, never the strategy
_should_continue_unbounded(phase, count, msgs, reason, tphase, n) ==
    IF phase = EXECUTE_TOOL_CALLS THEN TRUE ELSE tphase = CONTINUE

\* _should_continue
_should_continue(phase, count, msgs, reason, tphase, n) ==
    IF phase = EXECUTE_TOOL_CALLS THEN TRUE
    ELSE /\ max_iterations(n, [iterationCount |-> count, messages |-> msgs,
                               finishReason |-> reason])
         /\ tphase = CONTINUE

\* a cycle end that counts every cycle, not only execute cycles
_end_cycle_counts_all(phase, count) ==
    IF phase = PROCESS_CHAT
      THEN [cycle_phase |-> EXECUTE_TOOL_CALLS, iteration_count |-> count + 1]
      ELSE [cycle_phase |-> PROCESS_CHAT, iteration_count |-> count + 1]

\* _end_cycle: the new cycle_phase and iteration_count
_end_cycle(phase, count) ==
    IF phase = PROCESS_CHAT
      THEN [cycle_phase |-> EXECUTE_TOOL_CALLS, iteration_count |-> count]
      ELSE [cycle_phase |-> PROCESS_CHAT, iteration_count |-> count + 1]

\* the fields _handle_stream_chunk reads and writes
TurnState ==
    [accumulated_content |-> accumulated_content,
     tool_calls_map |-> tool_calls_map,
     finished_event |-> finished_event,
     last_finish_reason |-> last_finish_reason,
     early_termination |-> early_termination,
     should_emit_stream_end |-> should_emit_stream_end]

\* a handler that caches every RUN_FINISHED event it is given
_handle_run_finished_event_overwrites(s, chunk) ==
    [s EXCEPT !.finished_event = <<chunk>>,
              !.last_finish_reason = chunk.finishReason]

\* _handle_run_finished_event
_handle_run_finished_event(s, chunk) ==
    IF /\ s.finished_event # <<>>
       /\ s.finished_event[1].finishReason = "tool_calls"
       /\ chunk.finishReason = "stop"
      THEN [s EXCEPT !.last_finish_reason = chunk.finishReason]
      ELSE [s EXCEPT !.finished_event = <<chunk>>,
                     !.last_finish_reason = chunk.finishReason]

\* a chunk handler that takes no notice of RUN_ERROR
_handle_stream_chunk_ignores_error(s, chunk) ==
    CASE chunk.type = "TEXT_MESSAGE_CONTENT" ->
           IF chunk.content # <<>>
             THEN [s EXCEPT !.accumulated_content = chunk.content]
             ELSE [s EXCEPT !.accumulated_content = @ \o chunk.delta]
      [] chunk.type = "TOOL_CALL_START" ->
           [s EXCEPT !.tool_calls_map = add_tool_call_start_event(@, chunk)]
      [] chunk.type = "TOOL_CALL_ARGS" ->
           [s EXCEPT !.tool_calls_map = add_tool_call_args_event(@, chunk)]
      [] chunk.type = "RUN_FINISHED" -> _handle_run_finished_event(s, chunk)
      [] OTHER -> s

\* _handle_stream_chunk
_handle_stream_chunk(s, chunk) ==
    CASE chunk.type = "TEXT_MESSAGE_CONTENT" ->
           IF chunk.content # <<>>
             THEN [s EXCEPT !.accumulated_content = chunk.content]
             ELSE [s EXCEPT !.accumulated_content = @ \o chunk.delta]
      [] chunk.type = "TOOL_CALL_START" ->
           [s EXCEPT !.tool_calls_map = add_tool_call_start_event(@, chunk)]
      [] chunk.type = "TOOL_CALL_ARGS" ->
           [s EXCEPT !.tool_calls_map = add_tool_call_args_event(@, chunk)]
      [] chunk.type = "RUN_FINISHED" -> _handle_run_finished_event(s, chunk)
      [] chunk.type = "RUN_ERROR" ->
           [s EXCEPT !.early_termination = TRUE,
                     !.should_emit_stream_end = FALSE]
      [] OTHER -> s

\* the loop of _stream_model_response over the chunks the adapter yields
\* before it next waits for its provider: yield, handle, break on early
\* termination.  Gives the state, the chunks yielded and whether it broke.
RECURSIVE Consume_reads_on(_, _, _)
Consume_reads_on(s, yielded, chunks) ==
    IF chunks = <<>> THEN [s |-> s, yielded |-> yielded, broke |-> FALSE]
    ELSE Consume_reads_on(_handle_stream_chunk(s, Head(chunks)),
                          Append(yielded, Head(chunks)), Tail(chunks))

RECURSIVE Consume(_, _, _)
Consume(s, yielded, chunks) ==
    IF chunks = <<>> THEN [s |-> s, yielded |-> yielded, broke |-> FALSE]
    ELSE LET s1 == _handle_stream_chunk(s, Head(chunks))
             y1 == Append(yielded, Head(chunks))
         IN IF s1.early_termination
              THEN [s |-> s1, yielded |-> y1, broke |-> TRUE]
              ELSE Consume(s1, y1, Tail(chunks))

\* a gate that does not look at the finish reason
_should_execute_tool_phase_any_reason(fin, tls, map) ==
    fin # <<>> /\ Len(tls) > 0 /\ has_tool_calls(map)

\* _should_execute_tool_phase
_should_execute_tool_phase(fin, tls, map) ==
    /\ fin # <<>>
    /\ fin[1].finishReason = "tool_calls"
    /\ Len(tls) > 0
    /\ has_tool_calls(map)

\* an assistant message that does not carry the tool calls
AssistantToolCallMessage_no_calls(content, tool_calls) ==
    Msg("assistant", IF content # <<>> THEN <<content>> ELSE <<>>, <<>>, "")

\* _add_assistant_tool_call_message: the message appended
AssistantToolCallMessage(content, tool_calls) ==
    Msg("assistant", IF content # <<>> THEN <<content>> ELSE <<>>, tool_calls, "")

\* _collect_client_state: (approvals, client_tool_results)
_collect_client_state(msgs) ==
    [approvals |-> EmptyDict, client_tool_results |-> EmptyDict]

\* _emit_approval_requests: the chunks yielded
_emit_approval_requests(approval_requests) ==
    [i \in 1..Len(approval_requests) |->
        [Ev("CUSTOM") EXCEPT !.name = "approval-requested",
                             !.toolCallId = approval_requests[i].tool_call_id,
                             !.toolName = approval_requests[i].tool_name,
                             !.input = approval_requests[i].input,
                             !.approvalId = approval_requests[i].approval_id]]

\* _emit_client_tool_inputs: the chunks yielded
_emit_client_tool_inputs(client_requests) ==
    [i \in 1..Len(client_requests) |->
        [Ev("CUSTOM") EXCEPT !.name = "tool-input-available",
                             !.toolCallId = client_requests[i].tool_call_id,
                             !.toolName = client_requests[i].tool_name,
                             !.input = client_requests[i].input]]

\* _emit_tool_results: the chunks yielded and the messages appended
_emit_tool_results(results) ==
    [chunks |-> [i \in 1..Len(results) |->
                    [Ev("TOOL_CALL_END") EXCEPT
                        !.toolCallId = results[i].tool_call_id,
                        !.toolName = results[i].tool_name,
                        !.result = JsonDumps(results[i].result)]],
     msgs |-> [i \in 1..Len(results) |->
                  Msg("tool", <<JsonDumps(results[i].result)>>, <<>>,
                      results[i].tool_call_id)]]

\* flatten a sequence of sequences
RECURSIVE Flatten(_)
Flatten(ss) == IF ss = <<>> THEN <<>> ELSE Head(ss) \o Flatten(Tail(ss))

\* a scan of the history that finds nothing pending
_get_pending_tool_calls_none(msgs) == <<>>

\* _get_pending_tool_calls_from_messages
_get_pending_tool_calls_from_messages(msgs) ==
    LET completed_tool_ids ==
            {msgs[i].toolCallId : i \in {j \in 1..Len(msgs) :
                msgs[j].role = "tool" /\ msgs[j].toolCallId # ""}}
        IsPending(tc) == tc.id \notin completed_tool_ids
        per_message == [i \in 1..Len(msgs) |->
            IF msgs[i].role = "assistant" /\ msgs[i].toolCalls # <<>>
              THEN SelectSeq(msgs[i].toolCalls, IsPending) ELSE <<>>]
    IN Flatten(per_message)

\* _set_tool_phase: the new tool_phase and should_emit_stream_end
_set_tool_phase(phase, emit_end) ==
    [tool_phase |-> phase,
     should_emit_stream_end |-> IF phase = WAIT THEN FALSE ELSE emit_end]

\* what follows an execute_tool_calls pass that returned r: either the
\* approval and client requests are emitted (wait), or the results are
\* emitted and appended
AfterPass(r) ==
    IF r.needs_approval # <<>> \/ r.needs_client_execution # <<>>
      THEN [wait |-> TRUE,
            chunks |-> _emit_approval_requests(r.needs_approval)
                         \o _emit_client_tool_inputs(r.needs_client_execution),
            msgs |-> <<>>]
      ELSE [wait |-> FALSE,
            chunks |-> _emit_tool_results(r.results).chunks,
            msgs |-> _emit_tool_results(r.results).msgs]

(* ------------------------- the inputs of a run ------------------------- *)

UserHi == Msg("user", << <<"h", "i">> >>, <<>>, "")
Declares(calls) == Msg("assistant", <<>>, calls, "")
ToolMsg(id) == Msg("tool", <<JsonDumps(PyInt(7))>>, <<>>, id)
OBJ == <<"{", "}">>

\* the conversations chat() is started on: options.messages with
\* options.system_prompts
Conversations ==
    { [messages |-> <<UserHi>>, system_prompts |-> << <<"be brief">> >>] }

\* the locals of the chat_stream generator being read (none before the
\* first call); id is the id of the tool call at current_tool_index
NoStream ==
    [index |-> NoIndex, id |-> "", ended |-> FALSE, stop_reason |-> NONE,
     has_emitted_run_started |-> FALSE,
     has_emitted_text_message_start |-> FALSE,
     accumulated_content |-> <<>>, accumulated_thinking |-> <<>>,
     step_id |-> 0, steps |-> 0, tool_calls |-> <<>>]

HistStart(budget) ==
    [budget |-> budget,          \* chunks / provider events the run may receive
     adapter_calls |-> 0,        \* chat_stream calls made
     adapter_messages |-> <<>>,  \* the messages the latest call was given
     phases |-> <<>>,            \* the cycle phases run, in order: "P", "E",
                                 \* or "X" for an execute phase that raised
     ops |-> <<>>,               \* stream and execute starts and ends, in order
     turn_at |-> 0,              \* Len(out) when the latest adapter call began
     policy_calls |-> <<>>,      \* the execute_tool_calls passes, in order
     approvals_seen |-> <<>>,    \* the approvals each pass was given
     executed |-> <<>>,          \* the calls whose execute was invoked
     received |-> 0,             \* chunks read from adapter streams
     events |-> 0,               \* provider events the adapter has read
     ids |-> 0,                  \* tool-call ids the provider has issued
     fed |-> <<>>,               \* the events handed to a manager by itself,
                                 \* each with the key its START wrote
     history |-> <<>>]           \* the messages chat() was started on

InitEngine(conv, tls, n, kind, budget, sup) ==
    /\ messages = _prepend_system_prompts(conv.messages, conv.system_prompts, <<>>)
    /\ tools = tls
    /\ max_iter = n
    /\ adapter = kind
    /\ supplied = sup
    /\ iteration_count = 0
    /\ last_finish_reason = NONE
    /\ accumulated_content = <<>>
    /\ finished_event = <<>>
    /\ should_emit_stream_end = TRUE
    /\ early_termination = FALSE
    /\ tool_phase = CONTINUE
    /\ cycle_phase = PROCESS_CHAT
    /\ tool_calls_map = <<>>
    /\ pc = "start"
    /\ stream = NoStream
    /\ out = <<>>
    /\ hist = [HistStart(budget) EXCEPT !.history = messages]

NothingSupplied == [approvals |-> EmptyDict, client_tool_results |-> EmptyDict]

\* StreamChunkConverter.__init__: the attributes of a new converter.  The
\* ids of generate_id are numbered in the order they are drawn; run_id is
\* the first and message_id the second.  tool_calls_map is kept as the
\* sequence of its entries in insertion order.
StreamChunkConverter(provider) ==
    [provider |-> provider,
     accumulated_content |-> <<>>,
     accumulated_thinking |-> <<>>,
     tool_calls_map |-> <<>>,
     current_tool_index |-> -1,
     run_finished |-> FALSE,
     run_id |-> "chatcmpl-1",
     message_id |-> "chatcmpl-2",
     step_id |-> NONE,
     generated |-> 2,
     has_emitted_run_started |-> FALSE,
     has_emitted_text_message_start |-> FALSE]

\* a converter that is constructed and not called
\* no stream_chunks_to_sse generator
NoSse == [state |-> "idle", kind |-> NONE, read |-> <<>>, frames |-> <<>>]

NoConversion ==
    /\ converter = StreamChunkConverter("anthropic")
    /\ converted = [chunks |-> <<>>, calls |-> 0, methods |-> {},
                    method |-> NONE, last |-> NONE,
                    given |-> NONE]
    /\ sse = NoSse

\* no execute_tool_calls call of its own
NoPass == [phase |-> "idle", calls |-> <<>>, result |-> ExecStart]

\* the tools and loop strategy of a run
Setups ==
    { [tools |-> <<>>, n |-> 1] } \cup { [tools |-> Registry, n |-> n] : n \in 1..MaxIter }

Init ==
    \E conv \in Conversations, su \in Setups :
        /\ InitEngine(conv, su.tools, su.n, "stub", MaxChunks, NothingSupplied)
        /\ pass = NoPass
        /\ NoConversion

(* ------------------------------ actions -------------------------------- *)

PolicyCall(at, calls, r) ==
    [at |-> at, calls |-> calls, raised |-> r.raised,
     wait |-> ~r.raised /\ AfterPass(r).wait,
     results |-> r.results, raisers |-> r.raisers,
     needs_approval |-> r.needs_approval,
     needs_client_execution |-> r.needs_client_execution,
     executed |-> r.executed,
     adapter_calls |-> hist.adapter_calls, appended |-> Len(messages)]

\* chat(), lines 138-144: _check_for_pending_tool_calls, then return on WAIT
CheckForPendingToolCalls ==
    /\ pc = "start"
    /\ LET pending == _get_pending_tool_calls_from_messages(messages)
           cs == _collect_client_state(messages)
       IN IF pending = <<>>
            THEN /\ pc' = "loop"
                 /\ UNCHANGED <<messages, out, hist, tool_phase,
                                should_emit_stream_end>>
            ELSE \E r \in execute_tool_calls(pending, tools, cs.approvals,
                                             cs.client_tool_results) :
                   /\ hist' = [hist EXCEPT
                         !.policy_calls = Append(@, PolicyCall("startup", pending, r)),
                         !.approvals_seen = Append(@, cs),
                         !.ops = @ \o r.ops,
                         !.executed = @ \o r.executed]
                   /\ IF r.raised
                        THEN /\ pc' = "raised"
                             /\ UNCHANGED <<messages, out, tool_phase,
                                            should_emit_stream_end>>
                        ELSE LET a == AfterPass(r) IN
                             /\ out' = out \o a.chunks
                             /\ messages' = messages \o a.msgs
                             /\ tool_phase' = IF a.wait THEN WAIT ELSE tool_phase
                             /\ should_emit_stream_end' =
                                  IF a.wait THEN FALSE ELSE should_emit_stream_end
                             /\ pc' = IF a.wait THEN "done" ELSE "loop"
    /\ UNCHANGED apart
    /\ UNCHANGED <<tools, max_iter, adapter, supplied, iteration_count, last_finish_reason,
                   accumulated_content, finished_event, early_termination,
                   cycle_phase, tool_calls_map, stream>>

Continues ==
    /\ _should_continue(cycle_phase, iteration_count, messages,
                        last_finish_reason, tool_phase, max_iter)
    /\ ~early_termination

\* the while loop ends: _should_continue() is false, or early_termination
LoopExit ==
    /\ pc = "loop"
    /\ ~Continues
    /\ pc' = "done"
    /\ UNCHANGED apart
    /\ UNCHANGED <<messages, tools, max_iter, adapter, supplied, iteration_count,
                   last_finish_reason, accumulated_content, finished_event,
                   should_emit_stream_end, early_termination, tool_phase,
                   cycle_phase, tool_calls_map, stream, out, hist>>

\* a PROCESS_CHAT cycle begins: _begin_iteration, then chat_stream is called
\* and its stream opens with RUN_STARTED
BeginProcessChat ==
    /\ pc = "loop"
    /\ Continues
    /\ cycle_phase = PROCESS_CHAT
    /\ accumulated_content' = <<>>
    /\ finished_event' = <<>>
    /\ hist' = [hist EXCEPT !.adapter_calls = @ + 1,
                            !.adapter_messages = messages,
                            !.turn_at = Len(out),
                            !.ops = Append(@, Op("stream_start", "")),
                            !.phases = Append(@, "P")]
    /\ stream' = NoStream
    /\ out' = IF adapter = "stub" THEN Append(out, RunStarted) ELSE out
    /\ pc' = "stream"
    /\ UNCHANGED apart
    /\ UNCHANGED <<messages, tools, max_iter, adapter, supplied, iteration_count,
                   last_finish_reason, should_emit_stream_end,
                   early_termination, tool_phase, cycle_phase, tool_calls_map>>

ToolId(k) == "t" \o ToString(k)

\* the chunks a stub adapter may yield next
StubChunks ==
    { TextContent(<<"a">>, <<>>) }
    \cup { ToolCallStart(ToolId(hist.ids + 1), n, stream.index + 1) :
             n \in { SRV, APPR, CLI, BLANK } }
    \cup { ToolCallArgs(stream.id, d, <<>>) :
             d \in IF stream.id = "" THEN {} ELSE { OBJ, <<"x">>, <<" ">> } }
    \cup { RunFinished(r) : r \in { "stop", "tool_calls" } }
    \cup { RunError("provider_error") }

\* the assignments after the chunks `chunks` of the stream were read; the
\* adapter read nev provider events and the provider issued nids tool ids
ReadChunks(chunks, nev, nids) ==
    LET r == Consume(TurnState, <<>>, chunks)
        ended == _end_cycle(cycle_phase, iteration_count)
    IN /\ out' = out \o r.yielded
       /\ accumulated_content' = r.s.accumulated_content
       /\ tool_calls_map' = r.s.tool_calls_map
       /\ finished_event' = r.s.finished_event
       /\ last_finish_reason' = r.s.last_finish_reason
       /\ early_termination' = r.s.early_termination
       /\ should_emit_stream_end' = r.s.should_emit_stream_end
       /\ hist' = [hist EXCEPT !.received = @ + Len(r.yielded),
                               !.events = @ + nev, !.ids = @ + nids,
                               !.ops = IF r.broke
                                         THEN Append(@, Op("stream_end", ""))
                                         ELSE @]
       /\ pc' = IF r.broke THEN "loop" ELSE "stream"
       /\ cycle_phase' = IF r.broke THEN ended.cycle_phase ELSE cycle_phase
       /\ iteration_count' = IF r.broke THEN ended.iteration_count
                             ELSE iteration_count

\* _stream_model_response reads the next chunk of a stub adapter's stream
StubChunk ==
    /\ pc = "stream"
    /\ adapter = "stub"
    /\ hist.received < hist.budget
    /\ \E c \in StubChunks :
         /\ ReadChunks(<<c>>, 0, IF c.type = "TOOL_CALL_START" THEN 1 ELSE 0)
         /\ stream' = IF c.type = "TOOL_CALL_START"
                        THEN [stream EXCEPT !.index = c.index, !.id = c.toolCallId]
                        ELSE stream
    /\ UNCHANGED apart
    /\ UNCHANGED <<messages, tools, max_iter, adapter, supplied, tool_phase>>

\* the provider events an Anthropic stream may deliver next; a message
\* reports its stop_reason once, in one message_delta
ProviderEvents ==
    { PEv("message_start"), PEv("content_block_stop"), PEv("message_stop"),
      PEv("exception"),
      [PEv("content_block_delta") EXCEPT !.delta_type = "text_delta",
                                         !.text = <<"a">>],
      [PEv("content_block_delta") EXCEPT !.delta_type = "input_json_delta",
                                         !.text = OBJ] }
    \cup { [PEv("content_block_start") EXCEPT !.block_type = "tool_use",
                                              !.id = ToolId(hist.ids + 1),
                                              !.name = n] : n \in {SRV, APPR} }
    \cup { [PEv("message_delta") EXCEPT !.stop_reason = r] :
             r \in IF stream.stop_reason = NONE
                     THEN {"end_turn", "tool_use", "max_tokens"}
                     ELSE {} }

\* _stream_model_response reads what AnthropicAdapter.chat_stream yields for
\* the next provider event
AnthropicEvent ==
    /\ pc = "stream"
    /\ adapter = "anthropic"
    /\ ~stream.ended
    /\ hist.events < hist.budget
    /\ \E ev \in ProviderEvents :
         LET r == AnthropicStep(stream, ev) IN
         /\ ReadChunks(r.yields, 1, IF ev.block_type = "tool_use" THEN 1 ELSE 0)
         /\ stream' = r.a
    /\ UNCHANGED apart
    /\ UNCHANGED <<messages, tools, max_iter, adapter, supplied, tool_phase>>

\* a stream end that records the turn's text as an assistant message
StreamEnd_appends_reply ==
    /\ pc = "stream"
    /\ LET ended == _end_cycle(cycle_phase, iteration_count)
       IN /\ cycle_phase' = ended.cycle_phase
          /\ iteration_count' = ended.iteration_count
    /\ pc' = "loop"
    /\ hist' = [hist EXCEPT !.ops = Append(@, Op("stream_end", ""))]
    /\ messages' = Append(messages, Msg("assistant", <<accumulated_content>>, <<>>, ""))
    /\ UNCHANGED apart
    /\ UNCHANGED <<tools, max_iter, adapter, supplied, last_finish_reason,
                   accumulated_content, finished_event, should_emit_stream_end,
                   early_termination, tool_phase, tool_calls_map, stream, out>>

\* the adapter stream is exhausted: the cycle ends
StreamEnd ==
    /\ pc = "stream"
    /\ LET ended == _end_cycle(cycle_phase, iteration_count)
       IN /\ cycle_phase' = ended.cycle_phase
          /\ iteration_count' = ended.iteration_count
    /\ pc' = "loop"
    /\ hist' = [hist EXCEPT !.ops = Append(@, Op("stream_end", ""))]
    /\ UNCHANGED apart
    /\ UNCHANGED <<messages, tools, max_iter, adapter, supplied, last_finish_reason,
                   accumulated_content, finished_event, should_emit_stream_end,
                   early_termination, tool_phase, tool_calls_map, stream, out>>

\* an EXECUTE_TOOL_CALLS cycle: _process_tool_calls, then _end_cycle
ProcessToolCalls ==
    /\ pc = "loop"
    /\ Continues
    /\ cycle_phase = EXECUTE_TOOL_CALLS
    /\ LET tool_calls == get_tool_calls(tool_calls_map)
           cs == _collect_client_state(messages)
           ended == _end_cycle(cycle_phase, iteration_count)
           with_call == Append(messages,
                               AssistantToolCallMessage(accumulated_content, tool_calls))
       IN IF \/ ~_should_execute_tool_phase(finished_event, tools, tool_calls_map)
             \/ finished_event = <<>>
             \/ tool_calls = <<>>
            THEN /\ tool_phase' = _set_tool_phase(STOP, should_emit_stream_end).tool_phase
                 /\ should_emit_stream_end' =
                      _set_tool_phase(STOP, should_emit_stream_end).should_emit_stream_end
                 /\ hist' = [hist EXCEPT !.phases = Append(@, "E")]
                 /\ cycle_phase' = ended.cycle_phase
                 /\ iteration_count' = ended.iteration_count
                 /\ pc' = "loop"
                 /\ UNCHANGED <<messages, out, tool_calls_map>>
            ELSE \E r \in execute_tool_calls(tool_calls, tools, cs.approvals,
                                             cs.client_tool_results) :
                   /\ hist' = [hist EXCEPT
                         !.phases = Append(@, IF r.raised THEN "X" ELSE "E"),
                         !.policy_calls = Append(@, PolicyCall("loop", tool_calls, r)),
                         !.approvals_seen = Append(@, cs),
                         !.ops = @ \o r.ops,
                         !.executed = @ \o r.executed]
                   /\ IF r.raised
                        THEN /\ messages' = with_call
                             /\ pc' = "raised"
                             /\ UNCHANGED <<out, tool_calls_map, tool_phase,
                                            should_emit_stream_end, cycle_phase,
                                            iteration_count>>
                        ELSE LET a == AfterPass(r)
                                 set == _set_tool_phase(IF a.wait THEN WAIT ELSE CONTINUE,
                                                        should_emit_stream_end)
                             IN /\ messages' = with_call \o a.msgs
                                /\ out' = out \o a.chunks
                                /\ tool_calls_map' = IF a.wait THEN tool_calls_map
                                                     ELSE clear(tool_calls_map)
                                /\ tool_phase' = set.tool_phase
                                /\ should_emit_stream_end' = set.should_emit_stream_end
                                /\ cycle_phase' = ended.cycle_phase
                                /\ iteration_count' = ended.iteration_count
                                /\ pc' = "loop"
    /\ UNCHANGED apart
    /\ UNCHANGED <<tools, max_iter, adapter, supplied, last_finish_reason, accumulated_content,
                   finished_event, early_termination, stream>>

Next ==
    \/ CheckForPendingToolCalls
    \/ LoopExit
    \/ BeginProcessChat
    \/ StubChunk
    \/ StreamEnd
    \/ ProcessToolCalls

Spec == Init /\ [][Next]_vars

\* the same engine reading AnthropicAdapter.chat_stream
InitAnthropic ==
    \E conv \in Conversations, n \in 1..MaxIter :
        /\ InitEngine(conv, Registry, n, "anthropic", MaxEvents, NothingSupplied)
        /\ pass = NoPass
        /\ NoConversion

NextAnthropic ==
    \/ CheckForPendingToolCalls
    \/ LoopExit
    \/ BeginProcessChat
    \/ AnthropicEvent
    \/ StreamEnd
    \/ ProcessToolCalls

SpecAnthropic == InitAnthropic /\ [][NextAnthropic]_vars

\* chat() re-invoked on a replayed history that declares tool calls
PendingCall(name) == ToolCall("p1", name, OBJ)

ResumeConversations ==
    { [messages |-> <<UserHi, Declares(<<PendingCall(n)>>)>>, system_prompts |-> <<>>]
        : n \in {SRV, APPR, CLI, CAPR, UNK} }
    \cup
    { [messages |-> m, system_prompts |-> <<>>] : m \in {
        <<UserHi, Declares(<<PendingCall(SRV)>>), ToolMsg("p1")>>,
        <<UserHi, Declares(<<ToolCall("p1", SRV, <<"x">>)>>)>>,
        <<UserHi, Declares(<<ToolCall("p1", SRV, <<" ">>), ToolCall("p2", APPR, <<>>)>>)>>,
        <<UserHi, Declares(<<PendingCall(APPR), ToolCall("p2", SRV, OBJ)>>), ToolMsg("p2")>>,
        <<UserHi, Declares(<<PendingCall(SRV)>>), ToolMsg("p1"),
          Declares(<<ToolCall("p2", CLI, OBJ)>>)>> } }

\* what the caller of the resumed request may hold for the call p1
Supplies ==
    { NothingSupplied,
      [approvals |-> [k \in {ApprovalId("p1")} |-> TRUE],
       client_tool_results |-> EmptyDict],
      [approvals |-> [k \in {ApprovalId("p1")} |-> FALSE],
       client_tool_results |-> EmptyDict],
      [approvals |-> [k \in {ApprovalId("p1")} |-> TRUE],
       client_tool_results |-> [k \in {"p1"} |-> PyInt(7)]] }

InitResume ==
    \E conv \in ResumeConversations, n \in 1..MaxIter, sup \in Supplies :
        /\ InitEngine(conv, Registry, n, "stub", MaxResumeChunks, sup)
        /\ pass = NoPass
        /\ NoConversion

SpecResume == InitResume /\ [][Next]_vars

(* ----------------- execute_tool_calls called by itself ------------------ *)

\* the longest batch of tool calls passed
MaxBatch == 2

CallId(k) == "c" \o ToString(k)

\* tool_calls: up to MaxBatch calls with the distinct ids c1, c2, ..., each
\* with the name of a registered tool or an unknown name, and with arguments
\* that are JSON, not JSON, or blank
Batches ==
    UNION { { [k \in 1..n |-> ToolCall(CallId(k), f[k].name, f[k].args)] :
                f \in [1..n -> [name : { SRV, APPR, CLI, CAPR, UNK },
                                 args : { OBJ, <<"x">>, <<" ">> }]] } :
            n \in 1..MaxBatch }

\* approvals: a decision for some of the n calls
ApprovalDicts(n) ==
    UNION { [ {ApprovalId(CallId(k)) : k \in D} -> BOOLEAN ] : D \in SUBSET (1..n) }

\* client_results: a result for some of the calls of the batch b that name
\* a tool the client runs
ClientResultDicts(b) ==
    UNION { [ {CallId(k) : k \in D} -> {PyInt(5)} ] :
            D \in SUBSET { k \in 1..Len(b) : b[k].name \in {CLI, CAPR} } }

InitPolicy ==
    \E conv \in Conversations, b \in Batches :
      \E ap \in ApprovalDicts(Len(b)), cr \in ClientResultDicts(b) :
        /\ InitEngine(conv, Registry, 1, "stub", 0,
                      [approvals |-> ap, client_tool_results |-> cr])
        /\ pass = [phase |-> "ready", calls |-> b, result |-> ExecStart]
        /\ NoConversion

\* await execute_tool_calls(tool_calls, tools, approvals, client_results):
\* it returns an ExecuteToolCallsResult or raises
ExecuteToolCalls ==
    /\ pass.phase = "ready"
    /\ \E r \in execute_tool_calls(pass.calls, tools, supplied.approvals,
                                     supplied.client_tool_results) :
         pass' = [pass EXCEPT !.phase = IF r.raised THEN "raised" ELSE "returned",
                              !.result = r]
    /\ UNCHANGED <<messages, tools, max_iter, adapter, supplied, iteration_count,
                   last_finish_reason, accumulated_content, finished_event,
                   should_emit_stream_end, early_termination, tool_phase,
                   cycle_phase, tool_calls_map, pc, stream, out, hist,
                   converter, converted, sse>>

\* what _process_tool_calls does with the result returned: the requests
\* or the tool results are yielded, the tool messages appended
EmitPass ==
    /\ pass.phase = "returned"
    /\ LET a == AfterPass(pass.result) IN
         /\ out' = out \o a.chunks
         /\ messages' = messages \o a.msgs
    /\ pass' = [pass EXCEPT !.phase = "emitted"]
    /\ UNCHANGED <<tools, max_iter, adapter, supplied, iteration_count,
                   last_finish_reason, accumulated_content, finished_event,
                   should_emit_stream_end, early_termination, tool_phase,
                   cycle_phase, tool_calls_map, pc, stream, hist,
                   converter, converted, sse>>

NextPolicy ==
    \/ ExecuteToolCalls
    \/ EmitPass

SpecPolicy == InitPolicy /\ [][NextPolicy]_vars

(* ------------------------ StreamChunkConverter ------------------------- *)

\* conversion calls made on one converter
MaxConversions == 3

\* the usage of a chunk (present = FALSE is None or no usage key)
NoUsage ==
    [present |-> FALSE, promptTokens |-> 0, completionTokens |-> 0,
     totalTokens |-> 0]

\* a chunk the converter returns, with only its type set; the model and
\* timestamp keys are the same in every chunk and are left out
Chunk(type) ==
    [type |-> type, runId |-> NONE, messageId |-> NONE, stepId |-> NONE,
     stepType |-> NONE, role |-> NONE, toolCallId |-> NONE, toolName |-> <<>>,
     index |-> NoIndex, delta |-> <<>>, content |-> <<>>, args |-> <<>>,
     input |-> PyNone, finishReason |-> NONE, usage |-> NoUsage,
     error |-> [message |-> <<>>, code |-> NONE]]

\* what a conversion step gives: the converter afterwards and the chunks
Converted(c, chunks) == [c |-> c, chunks |-> chunks]

\* generate_id: the next id, and the converter that has drawn it
generate_id(c) ==
    [c |-> [c EXCEPT !.generated = @ + 1],
     id |-> "chatcmpl-" \o ToString(c.generated + 1)]

\* a RUN_STARTED that does not set the flag
_maybe_emit_run_started_every_call(c) ==
    Converted(c, <<[Chunk("RUN_STARTED") EXCEPT !.runId = c.run_id]>>)

_maybe_emit_run_started(c) ==
    IF ~c.has_emitted_run_started
      THEN Converted([c EXCEPT !.has_emitted_run_started = TRUE],
                     <<[Chunk("RUN_STARTED") EXCEPT !.runId = c.run_id]>>)
      ELSE Converted(c, <<>>)

_maybe_emit_text_message_start(c) ==
    IF ~c.has_emitted_text_message_start
      THEN Converted([c EXCEPT !.has_emitted_text_message_start = TRUE],
                     <<[Chunk("TEXT_MESSAGE_START") EXCEPT
                           !.messageId = c.message_id, !.role = "assistant"]>>)
      ELSE Converted(c, <<>>)

\* self.tool_calls_map, a dict from an index to a tracked call
Tracked(key, id, name) ==
    [key |-> key, id |-> id, name |-> name, input |-> <<>>, started |-> FALSE]

DictHas(map, key) == \E i \in 1..Len(map) : map[i].key = key

DictGet(map, key) == map[CHOOSE i \in 1..Len(map) : map[i].key = key]

\* map[key] = entry: in place for a key the dict holds, at the end otherwise
DictPut(map, key, entry) ==
    IF DictHas(map, key)
      THEN [i \in 1..Len(map) |-> IF map[i].key = key THEN entry ELSE map[i]]
      ELSE Append(map, entry)

ToolCallStartOf(tc, index) ==
    [Chunk("TOOL_CALL_START") EXCEPT !.toolCallId = tc.id, !.toolName = tc.name,
                                     !.index = index]

\* a TOOL_CALL_END that does not parse the accumulated input
ToolCallEndOf_empty_input(tc) ==
    [Chunk("TOOL_CALL_END") EXCEPT !.toolCallId = tc.id, !.toolName = tc.name,
                                   !.input = PyDict]

ToolCallEndOf(tc) ==
    [Chunk("TOOL_CALL_END") EXCEPT !.toolCallId = tc.id, !.toolName = tc.name,
                                   !.input = ParsedInput(tc.input)]

\* a provider streaming event as the converter reads it.  Of an Anthropic
\* event: its type, the type, id and name of its content_block, the type and
\* text of its delta, the stop_reason of its delta.  Of an OpenAI chunk (no
\* type key): whether it has choices, and of choices[0] the delta's content
\* and tool_calls and the finish_reason.  Of both: the usage.
SdkEvent(type) ==
    [type |-> type, block_type |-> NONE, id |-> NONE, name |-> <<>>,
     delta_type |-> NONE, text |-> <<>>, stop_reason |-> NONE,
     has_choices |-> FALSE, content |-> <<>>, tool_calls |-> <<>>,
     finish_reason |-> NONE,
     usage |-> [present |-> FALSE, input_tokens |-> 0, output_tokens |-> 0,
                prompt_tokens |-> 0, completion_tokens |-> 0,
                total_tokens |-> 0]]

\* a block start that announces the tool call at once
AnthropicBlockStart_announces(c, ev) ==
    IF ev.block_type = "tool_use"
      THEN LET i == c.current_tool_index + 1 IN
           Converted([c EXCEPT !.current_tool_index = i,
                               !.tool_calls_map =
                                   DictPut(@, i, Tracked(i, ev.id, ev.name))],
                     <<ToolCallStartOf(Tracked(i, ev.id, ev.name), i)>>)
      ELSE Converted(c, <<>>)

\* event_type == "content_block_start"
AnthropicBlockStart(c, ev) ==
    IF ev.block_type = "tool_use"
      THEN LET i == c.current_tool_index + 1 IN
           Converted([c EXCEPT !.current_tool_index = i,
                               !.tool_calls_map =
                                   DictPut(@, i, Tracked(i, ev.id, ev.name))],
                     <<>>)
    ELSE IF ev.block_type = "thinking"
      THEN LET g == generate_id(c) IN
           Converted([g.c EXCEPT !.accumulated_thinking = <<>>,
                                 !.step_id = g.id],
                     <<[Chunk("STEP_STARTED") EXCEPT !.stepId = g.id,
                                                     !.stepType = "thinking"]>>)
    ELSE Converted(c, <<>>)

\* a delta handler whose chunks carry the fragment where the running total
\* belongs
AnthropicBlockDelta_fragment_only(c, ev) ==
    CASE ev.delta_type = "text_delta" ->
           LET s == _maybe_emit_text_message_start(c)
           IN Converted([s.c EXCEPT !.accumulated_content = @ \o ev.text],
                        s.chunks \o
                        <<[Chunk("TEXT_MESSAGE_CONTENT") EXCEPT
                              !.messageId = c.message_id, !.delta = ev.text,
                              !.content = ev.text]>>)
      [] ev.delta_type = "input_json_delta"
           /\ DictHas(c.tool_calls_map, c.current_tool_index) ->
           LET tc == DictGet(c.tool_calls_map, c.current_tool_index)
           IN Converted(
                [c EXCEPT !.tool_calls_map =
                    DictPut(@, c.current_tool_index,
                            [tc EXCEPT !.started = TRUE, !.input = @ \o ev.text])],
                (IF tc.started THEN <<>>
                 ELSE <<ToolCallStartOf(tc, c.current_tool_index)>>)
                \o <<[Chunk("TOOL_CALL_ARGS") EXCEPT
                         !.toolCallId = tc.id, !.delta = ev.text,
                         !.args = ev.text]>>)
      [] OTHER -> Converted(c, <<>>)

\* event_type == "content_block_delta"
AnthropicBlockDelta(c, ev) ==
    CASE ev.delta_type = "text_delta" ->
           LET s == _maybe_emit_text_message_start(c)
               content == c.accumulated_content \o ev.text
           IN Converted([s.c EXCEPT !.accumulated_content = content],
                        s.chunks \o
                        <<[Chunk("TEXT_MESSAGE_CONTENT") EXCEPT
                              !.messageId = c.message_id, !.delta = ev.text,
                              !.content = content]>>)
      [] ev.delta_type = "thinking_delta" ->
           LET thinking == c.accumulated_thinking \o ev.text
               g == IF c.step_id = NONE THEN generate_id(c)
                    ELSE [c |-> c, id |-> c.step_id]
           IN Converted([g.c EXCEPT !.accumulated_thinking = thinking],
                        <<[Chunk("STEP_FINISHED") EXCEPT
                              !.stepId = g.id, !.delta = ev.text,
                              !.content = thinking]>>)
      [] ev.delta_type = "input_json_delta" ->
           IF ~DictHas(c.tool_calls_map, c.current_tool_index)
             THEN Converted(c, <<>>)
             ELSE LET tc == DictGet(c.tool_calls_map, c.current_tool_index)
                      input == tc.input \o ev.text
                  IN Converted(
                       [c EXCEPT !.tool_calls_map =
                           DictPut(@, c.current_tool_index,
                                   [tc EXCEPT !.started = TRUE, !.input = input])],
                       (IF tc.started THEN <<>>
                        ELSE <<ToolCallStartOf(tc, c.current_tool_index)>>)
                       \o <<[Chunk("TOOL_CALL_ARGS") EXCEPT
                                !.toolCallId = tc.id, !.delta = ev.text,
                                !.args = input]>>)
      [] OTHER -> Converted(c, <<>>)

\* a block close that ends the text message whether or not any text came
AnthropicBlockStop_ends_empty(c) ==
    LET has == DictHas(c.tool_calls_map, c.current_tool_index)
        tc == DictGet(c.tool_calls_map, c.current_tool_index)
        text_end ==
            IF c.has_emitted_text_message_start
              THEN <<[Chunk("TEXT_MESSAGE_END") EXCEPT !.messageId = c.message_id]>>
              ELSE <<>>
    IN IF has
         THEN Converted(
                [c EXCEPT !.tool_calls_map =
                    DictPut(@, c.current_tool_index, [tc EXCEPT !.started = TRUE])],
                (IF tc.started THEN <<>>
                 ELSE <<ToolCallStartOf(tc, c.current_tool_index)>>)
                \o <<ToolCallEndOf(tc)>> \o text_end)
         ELSE Converted(c, text_end)

\* event_type == "content_block_stop"
AnthropicBlockStop(c) ==
    LET has == DictHas(c.tool_calls_map, c.current_tool_index)
        tc == DictGet(c.tool_calls_map, c.current_tool_index)
        text_end ==
            IF c.has_emitted_text_message_start /\ c.accumulated_content # <<>>
              THEN <<[Chunk("TEXT_MESSAGE_END") EXCEPT !.messageId = c.message_id]>>
              ELSE <<>>
    IN IF has
         THEN Converted(
                [c EXCEPT !.tool_calls_map =
                    DictPut(@, c.current_tool_index, [tc EXCEPT !.started = TRUE])],
                (IF tc.started THEN <<>>
                 ELSE <<ToolCallStartOf(tc, c.current_tool_index)>>)
                \o <<ToolCallEndOf(tc)>> \o text_end)
         ELSE Converted(c, text_end)

\* a message_delta handler that reports every unmapped stop reason as stop
AnthropicMessageDelta_unmapped_is_stop(c, ev) ==
    IF ev.stop_reason = NONE THEN Converted(c, <<>>)
    ELSE IF ev.stop_reason = "max_tokens"
      THEN Converted([c EXCEPT !.run_finished = TRUE],
                     <<[Chunk("RUN_ERROR") EXCEPT
                           !.runId = c.run_id,
                           !.error = [message |-> <<"cut off">>,
                                      code |-> "max_tokens"]]>>)
    ELSE Converted([c EXCEPT !.run_finished = TRUE],
                   <<[Chunk("RUN_FINISHED") EXCEPT
                         !.runId = c.run_id,
                         !.finishReason =
                           IF ev.stop_reason = "tool_use" THEN "tool_calls"
                           ELSE "stop"]>>)

\* event_type == "message_delta"
AnthropicMessageDelta(c, ev) ==
    IF ev.stop_reason = NONE THEN Converted(c, <<>>)
    ELSE IF ev.stop_reason = "max_tokens"
      THEN Converted([c EXCEPT !.run_finished = TRUE],
                     <<[Chunk("RUN_ERROR") EXCEPT
                           !.runId = c.run_id,
                           !.error =
                             [message |-> <<"The response was cut off because the maximum token limit was reached.">>,
                              code |-> "max_tokens"]]>>)
    ELSE Converted([c EXCEPT !.run_finished = TRUE],
                   <<[Chunk("RUN_FINISHED") EXCEPT
                         !.runId = c.run_id,
                         !.finishReason =
                           CASE ev.stop_reason = "tool_use" -> "tool_calls"
                             [] ev.stop_reason = "end_turn" -> "stop"
                             [] OTHER -> ev.stop_reason,
                         !.usage =
                           IF ev.usage.present
                             THEN [present |-> TRUE,
                                   promptTokens |-> ev.usage.input_tokens,
                                   completionTokens |-> ev.usage.output_tokens,
                                   totalTokens |-> ev.usage.input_tokens
                                                     + ev.usage.output_tokens]
                             ELSE NoUsage]>>)

\* event_type == "message_stop"
AnthropicMessageStop(c) ==
    IF ~c.run_finished
      THEN Converted([c EXCEPT !.run_finished = TRUE],
                     <<[Chunk("RUN_FINISHED") EXCEPT !.runId = c.run_id,
                                                     !.finishReason = "stop"]>>)
      ELSE Converted(c, <<>>)

\* convert_anthropic_event: RUN_STARTED on the first event, then the branch
\* of the event type
convert_anthropic_event(c, ev) ==
    LET s == _maybe_emit_run_started(c)
        b == CASE ev.type = "content_block_start" -> AnthropicBlockStart(s.c, ev)
               [] ev.type = "content_block_delta" -> AnthropicBlockDelta(s.c, ev)
               [] ev.type = "content_block_stop" -> AnthropicBlockStop(s.c)
               [] ev.type = "message_delta" -> AnthropicMessageDelta(s.c, ev)
               [] ev.type = "message_stop" -> AnthropicMessageStop(s.c)
               [] OTHER -> Converted(s.c, <<>>)
    IN Converted(b.c, s.chunks \o b.chunks)

\* the body of `for tool_call in tool_calls`; of the tool call tcd: its index
\* (NoIndex when absent), its id (NONE when absent), the name and the
\* arguments of its function
OpenAIToolCall(c, tcd) ==
    LET tool_index == IF tcd.index = NoIndex THEN Len(c.tool_calls_map)
                      ELSE tcd.index
        fresh == Tracked(tool_index,
                         IF tcd.id # NONE THEN tcd.id
                         ELSE "call_ts_" \o ToString(tool_index),
                         tcd.name)
        map == IF DictHas(c.tool_calls_map, tool_index) THEN c.tool_calls_map
               ELSE Append(c.tool_calls_map, fresh)
        tracked == DictGet(map, tool_index)
        named == [tracked EXCEPT !.id = IF tcd.id # NONE THEN tcd.id ELSE @,
                                 !.name = IF tcd.name # <<>> THEN tcd.name ELSE @]
        starts == ~named.started /\ (tcd.id # NONE \/ tcd.name # <<>>)
        after == [named EXCEPT !.started = @ \/ starts,
                               !.input = @ \o tcd.arguments]
    IN Converted(
         [c EXCEPT !.tool_calls_map = DictPut(map, tool_index, after)],
         (IF starts THEN <<ToolCallStartOf(named, tool_index)>> ELSE <<>>)
         \o (IF tcd.arguments # <<>>
               THEN <<[Chunk("TOOL_CALL_ARGS") EXCEPT
                          !.toolCallId = named.id, !.delta = tcd.arguments,
                          !.args = after.input]>>
               ELSE <<>>))

RECURSIVE OpenAIToolCalls(_, _)
OpenAIToolCalls(c, tool_calls) ==
    IF tool_calls = <<>> THEN Converted(c, <<>>)
    ELSE LET first == OpenAIToolCall(c, Head(tool_calls))
             rest == OpenAIToolCalls(first.c, Tail(tool_calls))
         IN Converted(rest.c, first.chunks \o rest.chunks)

\* handle completion: `if finish_reason:`
OpenAIFinish(c, ev) ==
    LET started == SelectSeq(c.tool_calls_map, LAMBDA e : e.started)
    IN Converted([c EXCEPT !.run_finished = TRUE],
                 [i \in 1..Len(started) |-> ToolCallEndOf(started[i])]
                 \o (IF c.has_emitted_text_message_start
                       THEN <<[Chunk("TEXT_MESSAGE_END") EXCEPT
                                  !.messageId = c.message_id]>>
                       ELSE <<>>)
                 \o <<[Chunk("RUN_FINISHED") EXCEPT
                          !.runId = c.run_id,
                          !.finishReason = ev.finish_reason,
                          !.usage =
                            IF ev.usage.present
                              THEN [present |-> TRUE,
                                    promptTokens |-> ev.usage.prompt_tokens,
                                    completionTokens |-> ev.usage.completion_tokens,
                                    totalTokens |-> ev.usage.total_tokens]
                              ELSE NoUsage]>>)

\* convert_openai_event: RUN_STARTED on the first event, then the content,
\* the tool calls and the finish reason of choices[0] (of the event itself
\* when it has no choices)
convert_openai_event(c, ev) ==
    LET s == _maybe_emit_run_started(c)
        m == _maybe_emit_text_message_start(s.c)
        content == s.c.accumulated_content \o ev.content
        t == IF ev.content = <<>> THEN Converted(s.c, <<>>)
             ELSE Converted([m.c EXCEPT !.accumulated_content = content],
                            m.chunks \o
                            <<[Chunk("TEXT_MESSAGE_CONTENT") EXCEPT
                                  !.messageId = c.message_id,
                                  !.delta = ev.content, !.content = content]>>)
        u == OpenAIToolCalls(t.c, ev.tool_calls)
        f == IF ev.finish_reason # NONE THEN OpenAIFinish(u.c, ev)
             ELSE Converted(u.c, <<>>)
    IN Converted(f.c, s.chunks \o t.chunks \o u.chunks \o f.chunks)

\* the format convert_event reads the event in: by self.provider, else by
\* the shape of the event, Anthropic's when nothing tells
ProviderOf(c, ev) ==
    IF c.provider \in {"anthropic", "openai"} THEN c.provider
    ELSE IF ev.type \in { "content_block_start", "content_block_delta",
                          "content_block_stop", "message_delta", "message_stop" }
      THEN "anthropic"
    ELSE IF ev.has_choices THEN "openai"
    ELSE "anthropic"

convert_event(c, ev) ==
    IF ProviderOf(c, ev) = "anthropic" THEN convert_anthropic_event(c, ev)
    ELSE convert_openai_event(c, ev)

\* convert_error: RUN_STARTED if no call has emitted it, then RUN_ERROR; of
\* the exception: str(error), its code attribute (NONE without one) and the
\* name of its class
convert_error(c, error) ==
    LET s == _maybe_emit_run_started(c)
    IN Converted(s.c,
                 s.chunks \o
                 <<[Chunk("RUN_ERROR") EXCEPT
                       !.runId = c.run_id,
                       !.error = [message |-> error.message,
                                  code |-> IF error.code # NONE THEN error.code
                                           ELSE error.class]]>>)

\* the events a caller may hand to the converter next
AnthropicEvents ==
    { [SdkEvent("content_block_start") EXCEPT
          !.block_type = "tool_use",
          !.id = "toolu_" \o ToString(converter.current_tool_index + 2),
          !.name = SRV],
      [SdkEvent("content_block_start") EXCEPT !.block_type = "thinking"],
      [SdkEvent("content_block_start") EXCEPT !.block_type = "text"],
      [SdkEvent("content_block_delta") EXCEPT !.delta_type = "text_delta",
                                                 !.text = <<"a">>],
      [SdkEvent("content_block_delta") EXCEPT !.delta_type = "text_delta"],
      [SdkEvent("content_block_delta") EXCEPT !.delta_type = "thinking_delta",
                                                 !.text = <<"t">>],
      [SdkEvent("content_block_delta") EXCEPT !.delta_type = "input_json_delta",
                                                 !.text = OBJ],
      [SdkEvent("content_block_delta") EXCEPT !.delta_type = "input_json_delta",
                                                 !.text = <<"1">>],
      SdkEvent("content_block_stop"),
      SdkEvent("message_delta"),
      [SdkEvent("message_delta") EXCEPT
          !.stop_reason = "end_turn",
          !.usage = [@ EXCEPT !.present = TRUE, !.input_tokens = 1,
                                      !.output_tokens = 2]],
      [SdkEvent("message_delta") EXCEPT !.stop_reason = "tool_use"],
      [SdkEvent("message_delta") EXCEPT !.stop_reason = "max_tokens"],
      [SdkEvent("message_delta") EXCEPT !.stop_reason = "stop_sequence"],
      SdkEvent("message_stop"),
      SdkEvent("message_start") }

OpenAIEvents ==
    { [SdkEvent("") EXCEPT !.has_choices = TRUE],
      [SdkEvent("") EXCEPT !.has_choices = TRUE, !.content = <<"a">>],
      [SdkEvent("") EXCEPT !.has_choices = TRUE,
          !.tool_calls = <<[index |-> 0, id |-> "call_1", name |-> SRV,
                            arguments |-> <<>>]>>],
      [SdkEvent("") EXCEPT !.has_choices = TRUE,
          !.tool_calls = <<[index |-> NoIndex, id |-> NONE, name |-> <<>>,
                            arguments |-> OBJ]>>],
      [SdkEvent("") EXCEPT
          !.has_choices = TRUE,
          !.tool_calls = <<[index |-> 0, id |-> NONE, name |-> <<>>,
                            arguments |-> <<"1">>]>>],
      [SdkEvent("") EXCEPT !.has_choices = TRUE, !.finish_reason = "tool_calls"],
      [SdkEvent("") EXCEPT !.has_choices = TRUE,
          !.finish_reason = "stop",
          !.usage = [@ EXCEPT !.present = TRUE, !.prompt_tokens = 1,
                                      !.completion_tokens = 2,
                                      !.total_tokens = 3]] }

\* a converter of one of the providers and nothing else going on
InitConverter ==
    /\ \E conv \in Conversations :
          InitEngine(conv, Registry, 1, "stub", 0, NothingSupplied)
    /\ pass = NoPass
    /\ \E p \in { "anthropic", "openai", "auto" } :
          converter = StreamChunkConverter(p)
    /\ converted = [chunks |-> <<>>, calls |-> 0, methods |-> {},
                    method |-> NONE, last |-> NONE,
                    given |-> NONE]
    /\ sse = NoSse

\* a call returned: the converter's attributes are as the call left them
\* and its chunks are behind those of the calls before; converted.methods
\* are the methods that ran so far; of the latest call, converted.method is
\* the method that ran, converted.given the event or exception it was
\* given and converted.last the type of that event
Returned(r, method, given, type) ==
    /\ converted.calls < MaxConversions
    /\ converter' = r.c
    /\ converted' = [chunks |-> converted.chunks \o r.chunks,
                     calls |-> converted.calls + 1,
                     methods |-> converted.methods \cup {method},
                     method |-> method,
                     last |-> type,
                     given |-> given]
    /\ UNCHANGED <<engine, pass, sse>>

ConvertAnthropicEvent ==
    \E ev \in AnthropicEvents :
        Returned(convert_anthropic_event(converter, ev), "anthropic", ev, ev.type)

ConvertOpenAIEvent ==
    \E ev \in OpenAIEvents :
        Returned(convert_openai_event(converter, ev), "openai", ev, ev.type)

ConvertEvent ==
    \E ev \in AnthropicEvents \cup OpenAIEvents :
        Returned(convert_event(converter, ev), ProviderOf(converter, ev), ev,
                 ev.type)

ConvertError ==
    \E error \in { [message |-> <<"boom">>, code |-> NONE,
                     class |-> "RuntimeError"],
                    [message |-> <<"slow down">>, code |-> "rate_limit",
                     class |-> "APIError"] } :
        Returned(convert_error(converter, error), "error", error, "error")

NextConverter ==
    \/ ConvertAnthropicEvent
    \/ ConvertOpenAIEvent
    \/ ConvertEvent
    \/ ConvertError

SpecConverter == InitConverter /\ [][NextConverter]_vars

(* ---------------------- a ToolCallManager by itself -------------------- *)

\* a new ToolCallManager(tools); nothing else runs
InitManager ==
    \E conv \in Conversations :
        /\ InitEngine(conv, Registry, 1, "stub", MaxFed, NothingSupplied)
        /\ pass = NoPass
        /\ NoConversion

\* the manager was handed `event` and left the map `map`
Fed(event, index, map) ==
    /\ Len(hist.fed) < MaxFed
    /\ tool_calls_map' = map
    /\ hist' = [hist EXCEPT !.fed = Append(@, [event |-> event, index |-> index])]
    /\ UNCHANGED apart
    /\ UNCHANGED <<messages, tools, max_iter, adapter, supplied, iteration_count,
                   last_finish_reason, accumulated_content, finished_event,
                   should_emit_stream_end, early_termination, tool_phase,
                   cycle_phase, pc, stream, out>>

\* add_tool_call_start_event on one of the START events a caller may hand in
AddToolCallStartEvent ==
    \E event \in { ToolCallStart(id, n, index) :
                      id \in {"", "t1", "t2"}, n \in {<<>>, BLANK, SRV},
                      index \in {NoIndex, 0} } :
        Fed(event,
            IF event.index = NoIndex THEN Len(tool_calls_map) ELSE event.index,
            add_tool_call_start_event(tool_calls_map, event))

\* add_tool_call_args_event on one of the ARGS events a caller may hand in
AddToolCallArgsEvent ==
    \E event \in { ToolCallArgs(id, d, <<>>) :
                      id \in {"t1", "t2", "t3"}, d \in {<<"a">>, <<"b">>} } :
        Fed(event, NoIndex, add_tool_call_args_event(tool_calls_map, event))

NextManager ==
    \/ AddToolCallStartEvent
    \/ AddToolCallArgsEvent

SpecManager == InitManager /\ [][NextManager]_vars

(* ------------------------- stream_chunks_to_sse ------------------------ *)

\* format_sse_chunk: "data: " + json.dumps(chunk) + a blank line, for a
\* chunk dictionary with the key type and, unless absent, the key delta
format_sse_chunk(chunk) ==
    LET dumps == "{\"type\": \"" \o chunk.type \o "\""
                 \o (IF chunk.delta # NONE
                       THEN ", \"delta\": \"" \o chunk.delta \o "\"" ELSE "")
                 \o "}"
    IN "data: " \o dumps \o "\n\n"

\* a completion marker without the blank line that ends an SSE event
format_sse_done_unterminated == "data: [DONE]"

\* format_sse_done
format_sse_done == "data: [DONE]\n\n"

\* stream_chunks_to_sse(chunks) called on an async or a regular iterator
InitSse ==
    /\ \E conv \in Conversations :
          InitEngine(conv, Registry, 1, "stub", 0, NothingSupplied)
    /\ pass = NoPass
    /\ converter = StreamChunkConverter("anthropic")
    /\ converted = [chunks |-> <<>>, calls |-> 0, methods |-> {},
                    method |-> NONE, last |-> NONE,
                    given |-> NONE]
    /\ \E kind \in {"async", "sync"} :
          sse = [NoSse EXCEPT !.state = "iterating", !.kind = kind]

\* the iterator yields a chunk: its frame is yielded
SseChunk ==
    /\ sse.state = "iterating"
    /\ Len(sse.read) < MaxSseChunks
    /\ \E chunk \in { [type |-> "RUN_STARTED", delta |-> NONE],
                       [type |-> "TEXT_MESSAGE_CONTENT", delta |-> "a"],
                       [type |-> "TEXT_MESSAGE_CONTENT", delta |-> "[DONE]"],
                       [type |-> "RUN_FINISHED", delta |-> NONE] } :
         sse' = [sse EXCEPT !.read = Append(@, chunk),
                            !.frames = Append(@, format_sse_chunk(chunk))]
    /\ UNCHANGED <<engine, pass, converter, converted>>

\* the iterator is exhausted: the completion marker is yielded and the
\* generator ends
SseExhausted ==
    /\ sse.state = "iterating"
    /\ sse' = [sse EXCEPT !.state = "done",
                          !.frames = Append(@, format_sse_done)]
    /\ UNCHANGED <<engine, pass, converter, converted>>

\* the iterator raises: the exception leaves the generator, which has no
\* handler
SseSourceRaises ==
    /\ sse.state = "iterating"
    /\ sse' = [sse EXCEPT !.state = "raised"]
    /\ UNCHANGED <<engine, pass, converter, converted>>

NextSse ==
    \/ SseChunk
    \/ SseExhausted
    \/ SseSourceRaises

SpecSse == InitSse /\ [][NextSse]_vars

(* ------------ the adapter and the converter on the same events ---------- *)

\* one chat_stream generator and one converter, nothing read yet
InitBoth ==
    /\ \E conv \in Conversations :
          InitEngine(conv, Registry, 1, "anthropic", MaxConversions, NothingSupplied)
    /\ pass = NoPass
    /\ NoConversion

\* the provider delivers an event: chat_stream yields its chunks for it (kept
\* in out, as a consumer that reads the stream to its end receives them) and
\* convert_anthropic_event returns its chunks for the same event
FeedBoth ==
    /\ converted.calls < MaxConversions
    /\ \E ev \in AnthropicEvents :
         LET r == AnthropicStep(stream,
                                [PEv(ev.type) EXCEPT
                                    !.block_type = ev.block_type, !.id = ev.id,
                                    !.name = ev.name, !.delta_type = ev.delta_type,
                                    !.text = ev.text,
                                    !.stop_reason = ev.stop_reason])
             k == convert_anthropic_event(converter, ev)
         IN /\ stream' = r.a
            /\ out' = out \o r.yields
            /\ converter' = k.c
            /\ converted' = [chunks |-> converted.chunks \o k.chunks,
                             calls |-> converted.calls + 1,
                             methods |-> converted.methods \cup {"anthropic"},
                             method |-> "anthropic",
                             last |-> ev.type,
                             given |-> ev]
    /\ UNCHANGED <<messages, tools, max_iter, adapter, supplied, iteration_count,
                   last_finish_reason, accumulated_content, finished_event,
                   should_emit_stream_end, early_termination, tool_phase,
                   cycle_phase, tool_calls_map, pc, hist, pass, sse>>

SpecBoth == InitBoth /\ [][FeedBoth]_vars

(* ------------------ chat() with the default loop strategy --------------- *)

\* options.agent_loop_strategy or max_iterations(5)
DefaultMaxIterations == 5

\* chunks one adapter stream delivers before it is exhausted
MaxTurnChunks == 2

\* chat() is started with no agent_loop_strategy given
InitDefault ==
    /\ \E conv \in Conversations :
          InitEngine(conv, Registry, DefaultMaxIterations, "stub", MaxTurnChunks,
                     NothingSupplied)
    /\ pass = NoPass
    /\ NoConversion

\* _stream_model_response reads the next chunk of a stream that delivers at
\* most MaxTurnChunks chunks after its RUN_STARTED
TurnChunk ==
    /\ pc = "stream"
    /\ Len(out) - hist.turn_at <= hist.budget
    /\ \E c \in StubChunks :
         /\ ReadChunks(<<c>>, 0, IF c.type = "TOOL_CALL_START" THEN 1 ELSE 0)
         /\ stream' = IF c.type = "TOOL_CALL_START"
                        THEN [stream EXCEPT !.index = c.index, !.id = c.toolCallId]
                        ELSE stream
    /\ UNCHANGED apart
    /\ UNCHANGED <<messages, tools, max_iter, adapter, supplied, tool_phase>>

NextDefault ==
    \/ CheckForPendingToolCalls
    \/ LoopExit
    \/ BeginProcessChat
    \/ TurnChunk
    \/ StreamEnd
    \/ ProcessToolCalls

\* the consumer keeps reading the generator, and every adapter stream and
\* every execute returns: a step that can be taken is taken
SpecDefault == InitDefault /\ [][NextDefault]_vars /\ WF_vars(NextDefault)

(* ----------------------------- properties ------------------------------ *)

Last(s) == s[Len(s)]

\* C1: under max_iterations(N) one chat() run makes at most N adapter
\* calls (PROCESS_CHAT phases), whatever the adapter yields and the tools
\* return.
C1_IterationBound ==
    /\ hist.adapter_calls <= max_iter
    /\ Cardinality({i \in 1..Len(hist.phases) : hist.phases[i] = "P"}) <= max_iter

\* a run that the strategy ended: N turns, each with executed tool calls
C1_Witness ==
    /\ pc = "done"
    /\ ~early_termination
    /\ tool_phase = CONTINUE
    /\ max_iter = MaxIter
    /\ hist.adapter_calls = max_iter

\* the phases run so far alternate, starting with PROCESS_CHAT
C2_Alternates ==
    \A i \in 1..Len(hist.phases) : (i % 2 = 1) <=> (hist.phases[i] = "P")

\* iteration_count is the number of EXECUTE_TOOL_CALLS phases completed
C2_CountsExecutePhases ==
    iteration_count = Cardinality({i \in 1..Len(hist.phases) : hist.phases[i] = "E"})

\* C2 (as stated): every PROCESS_CHAT phase is followed by an
\* EXECUTE_TOOL_CALLS phase, unconditionally and before any further
\* PROCESS_CHAT phase, so no finished run ends on a PROCESS_CHAT phase; and
\* iteration_count grows by one exactly when an execute phase completes.
C2_AlwaysFollowedByExecute ==
    /\ C2_Alternates
    /\ C2_CountsExecutePhases
    /\ (pc = "done" /\ hist.phases # <<>>) => Last(hist.phases) # "P"

\* C2 (amended): a PROCESS_CHAT phase is followed by an EXECUTE_TOOL_CALLS
\* phase before any further PROCESS_CHAT phase unless its stream carried a
\* RUN_ERROR, in which case the run ends on it; iteration_count grows by one
\* exactly when an execute phase completes.
C2_FollowedByExecuteUnlessError ==
    /\ C2_Alternates
    /\ C2_CountsExecutePhases
    /\ (pc = "done" /\ hist.phases # <<>>) =>
          (Last(hist.phases) = "P" <=> early_termination)
    /\ early_termination => Last(out).type = "RUN_ERROR"

\* a second turn ended by a RUN_ERROR after one completed execute phase
C2_Witness ==
    /\ pc = "done"
    /\ hist.phases = <<"P", "E", "P">>
    /\ iteration_count = 1
    /\ Last(out).type = "RUN_ERROR"

\* the step is one EXECUTE_TOOL_CALLS phase
ExecutePhaseStep ==
    /\ Len(hist'.phases) = Len(hist.phases) + 1
    /\ Last(hist'.phases) # "P"

\* the turn finished with tool_calls, a tool is registered, and the
\* accumulator holds a call with an id and a non-blank name
C3_ToolPhaseAllowed ==
    /\ finished_event # <<>>
    /\ finished_event[1].finishReason = "tool_calls"
    /\ tools # <<>>
    /\ \E i \in 1..Len(tool_calls_map) :
          tool_calls_map[i].id # "" /\ Strip(tool_calls_map[i].name) # <<>>

\* C3: an EXECUTE_TOOL_CALLS phase invokes the Policy Engine, after
\* appending an assistant tool-call message, only when the turn's finish
\* reason is tool_calls, a tool is registered and a complete call is
\* accumulated; otherwise the outcome is STOP with nothing appended, nothing
\* executed, nothing raised, and once STOP no further adapter call is made.
C3_ToolPhaseGate ==
    [][ /\ ExecutePhaseStep =>
            IF C3_ToolPhaseAllowed
              THEN /\ Len(hist'.policy_calls) = Len(hist.policy_calls) + 1
                   /\ Len(messages') > Len(messages)
                   /\ messages'[Len(messages) + 1].role = "assistant"
                   /\ messages'[Len(messages) + 1].toolCalls # <<>>
              ELSE /\ tool_phase' = STOP
                   /\ messages' = messages
                   /\ out' = out
                   /\ hist'.policy_calls = hist.policy_calls
                   /\ hist'.executed = hist.executed
                   /\ pc' # "raised"
        /\ tool_phase = STOP =>
              /\ hist'.adapter_calls = hist.adapter_calls
              /\ hist'.policy_calls = hist.policy_calls
              /\ pc' = "done" ]_vars

\* a turn that finished with tool_calls and registered tools, but whose only
\* accumulated call has a blank name, ended in STOP
C3_Witness ==
    /\ pc = "done"
    /\ tool_phase = STOP
    /\ finished_event # <<>>
    /\ finished_event[1].finishReason = "tool_calls"
    /\ tools # <<>>
    /\ tool_calls_map # <<>>
    /\ hist.policy_calls = <<>>
    /\ Last(hist.phases) = "E"

\* C4: within one iteration, once the finish reason tool_calls is recorded,
\* a later RUN_FINISHED with finishReason stop leaves last_finish_reason at
\* tool_calls.
C4_ToolCallsReasonKept ==
    [][ ( /\ pc = "stream"
          /\ finished_event # <<>>
          /\ finished_event[1].finishReason = "tool_calls"
          /\ last_finish_reason = "tool_calls"
          /\ Len(out') = Len(out) + 1
          /\ Last(out').type = "RUN_FINISHED"
          /\ Last(out').finishReason = "stop" )
        => last_finish_reason' = "tool_calls" ]_vars

\* the accumulated calls that have an id and a non-blank name, in order
CompleteCalls ==
    LET Complete(e) == e.id # "" /\ Strip(e.name) # <<>>
        kept == SelectSeq(tool_calls_map, Complete)
    IN [i \in 1..Len(kept) |->
          [id |-> kept[i].id, name |-> kept[i].name,
           arguments |-> kept[i].arguments]]

\* the arguments of a call are a JSON document (blank arguments stand for {})
ArgsAreJson(tc) ==
    Strip(tc.arguments) = <<>> \/ JsonLoads(Strip(tc.arguments)).ok

\* the call names a registered tool with execute and without needs_approval
IsServerCall(tc) ==
    \E i \in 1..Len(tools) :
        /\ tools[i].name = tc.name
        /\ tools[i].execute
        /\ ~tools[i].needs_approval

\* what a tool message may carry for an executed call: the JSON encoding of
\* the value execute returned, or of {"error": ...} when execute raised
ExecuteEncodings ==
    { JsonDumps(v) : v \in ToolReturns } \cup { JsonDumps(PyErr(m)) : m \in ToolRaises }

\* C5: when a turn ends with tool_calls and every complete call names a
\* registered server tool with valid JSON arguments, the execute phase
\* appends one assistant message carrying the calls, then one tool message
\* per call carrying the JSON encoding of what execute produced, sets the
\* tool phase to CONTINUE and clears the accumulator; if the strategy allows
\* a further turn, the loop stands before a PROCESS_CHAT phase, and every
\* adapter call receives the messages as they then are.
C5_ServerToolRound ==
    [][ /\ ( /\ ExecutePhaseStep
             /\ C3_ToolPhaseAllowed
             /\ \A i \in 1..Len(CompleteCalls) :
                   IsServerCall(CompleteCalls[i]) /\ ArgsAreJson(CompleteCalls[i]) )
            => LET calls == CompleteCalls
                   base == Len(messages)
               IN /\ Len(messages') = base + 1 + Len(calls)
                  /\ SubSeq(messages', 1, base) = messages
                  /\ messages'[base + 1].role = "assistant"
                  /\ messages'[base + 1].toolCalls = calls
                  /\ \A i \in 1..Len(calls) :
                        /\ messages'[base + 1 + i].role = "tool"
                        /\ messages'[base + 1 + i].toolCallId = calls[i].id
                        /\ Len(messages'[base + 1 + i].content) = 1
                        /\ messages'[base + 1 + i].content[1] \in ExecuteEncodings
                  /\ hist'.executed = hist.executed \o [i \in 1..Len(calls) |-> calls[i].id]
                  /\ tool_phase' = CONTINUE
                  /\ tool_calls_map' = <<>>
                  /\ pc' = "loop"
                  /\ cycle_phase' = PROCESS_CHAT
                  /\ (iteration_count' < max_iter =>
                        _should_continue(cycle_phase', iteration_count', messages',
                                         last_finish_reason', tool_phase', max_iter))
        /\ hist'.adapter_calls = hist.adapter_calls + 1 =>
              hist'.adapter_messages = messages ]_vars

\* the second adapter call received the assistant message and the tool
\* message with the encoded return value 7 of the first turn's call
C5_Witness ==
    /\ hist.adapter_calls = 2
    /\ Len(hist.adapter_messages) = 4
    /\ hist.adapter_messages[3].role = "assistant"
    /\ hist.adapter_messages[3].toolCalls = <<ToolCall("t1", SRV, OBJ)>>
    /\ hist.adapter_messages[4].role = "tool"
    /\ hist.adapter_messages[4].toolCallId = "t1"
    /\ hist.adapter_messages[4].content = << <<"7">> >>
    /\ tool_calls_map = <<>>

\* the call names a registered tool with needs_approval
NeedsApprovalCall(tc) ==
    \E i \in 1..Len(tools) : tools[i].name = tc.name /\ tools[i].needs_approval

IsRegisteredCall(tc) == \E i \in 1..Len(tools) : tools[i].name = tc.name

\* the approval-requested events for the call id among out'[from+1 ..]
ApprovalRequestsFor(id, from) ==
    { j \in (from + 1)..Len(out') :
        /\ out'[j].type = "CUSTOM"
        /\ out'[j].name = "approval-requested"
        /\ out'[j].toolCallId = id }

\* what C6 promises of an execute phase whose calls include approval calls
C6_Outcome ==
    /\ \A i \in 1..Len(CompleteCalls) :
          NeedsApprovalCall(CompleteCalls[i]) =>
            /\ Cardinality(ApprovalRequestsFor(CompleteCalls[i].id, Len(out))) = 1
            /\ \A j \in ApprovalRequestsFor(CompleteCalls[i].id, Len(out)) :
                  out'[j].approvalId = "approval_" \o CompleteCalls[i].id
            /\ \A k \in 1..Len(hist'.executed) :
                  hist'.executed[k] # CompleteCalls[i].id
    /\ \A j \in (Len(out) + 1)..Len(out') : out'[j].type = "CUSTOM"
    /\ SubSeq(out', 1, Len(out)) = out
    /\ tool_phase' = WAIT

\* once in WAIT the generator only ends: nothing more is yielded and the
\* adapter is not called
C6_WaitEnds ==
    tool_phase = WAIT =>
        /\ out' = out
        /\ hist'.adapter_calls = hist.adapter_calls
        /\ hist'.policy_calls = hist.policy_calls
        /\ pc' = "done"

\* C6 (as stated): whenever a turn's tool calls include a call to a
\* needs_approval tool with no approval recorded, exactly one
\* approval-requested event with approval id "approval_" + toolCallId is
\* emitted for it, its execute is not invoked, the tool phase becomes WAIT
\* and the generator ends with no adapter call and no RUN_FINISHED after.
C6_ApprovalAlwaysRequested ==
    [][ /\ ( /\ ExecutePhaseStep
             /\ C3_ToolPhaseAllowed
             /\ \E i \in 1..Len(CompleteCalls) : NeedsApprovalCall(CompleteCalls[i]) )
            => C6_Outcome
        /\ C6_WaitEnds ]_vars

\* C6 (amended): the same, provided the arguments of every call of the turn
\* to a registered tool are JSON; otherwise execute_tool_calls raises before
\* anything is emitted.
C6_ApprovalRequestedWhenArgsParse ==
    [][ /\ ( /\ ExecutePhaseStep
             /\ C3_ToolPhaseAllowed
             /\ \E i \in 1..Len(CompleteCalls) : NeedsApprovalCall(CompleteCalls[i])
             /\ \A i \in 1..Len(CompleteCalls) :
                   IsRegisteredCall(CompleteCalls[i]) => ArgsAreJson(CompleteCalls[i]) )
            => C6_Outcome
        /\ ( /\ ExecutePhaseStep
             /\ C3_ToolPhaseAllowed
             /\ \E i \in 1..Len(CompleteCalls) :
                   IsRegisteredCall(CompleteCalls[i]) /\ ~ArgsAreJson(CompleteCalls[i]) )
            => (pc' = "raised" /\ out' = out)
        /\ C6_WaitEnds ]_vars

\* the server call t1 ran, the approval call t2 did not: its request is the
\* last event of the ended run
C6_Witness ==
    /\ pc = "done"
    /\ tool_phase = WAIT
    /\ hist.executed = <<"t1">>
    /\ hist.adapter_calls = 1
    /\ Last(out).type = "CUSTOM"
    /\ Last(out).name = "approval-requested"
    /\ Last(out).toolCallId = "t2"
    /\ Last(out).approvalId = "approval_t2"

\* the tool calls an assistant message of the history h declares for which
\* h holds no tool message with that toolCallId
PendingCallsOf(h) ==
    { tc \in UNION { {h[i].toolCalls[k] : k \in 1..Len(h[i].toolCalls)} :
                       i \in {j \in 1..Len(h) : h[j].role = "assistant"} } :
        ~\E i \in 1..Len(h) : h[i].role = "tool" /\ h[i].toolCallId = tc.id }

\* C7: chat() re-invoked on the replayed history together with the caller's
\* approval decision for the pending call p1 (a needs_approval tool with
\* execute) resolves p1 to a tool result and appends its tool message,
\* instead of emitting the approval request again.
C7_ResumeResolvesPending ==
    ( /\ pc # "start"
      /\ "approval_p1" \in DOMAIN supplied.approvals
      /\ \E tc \in PendingCallsOf(hist.history) :
            /\ tc.id = "p1"
            /\ NeedsApprovalCall(tc)
            /\ \E i \in 1..Len(tools) : tools[i].name = tc.name /\ tools[i].execute )
    => /\ \E i \in 1..Len(messages) :
             messages[i].role = "tool" /\ messages[i].toolCallId = "p1"
       /\ \A j \in 1..Len(out) :
             ~(out[j].type = "CUSTOM" /\ out[j].toolCallId = "p1")

\* C8: on startup every pending call of the history is passed to the Policy
\* Engine before any adapter call; if that pass asks for an approval or a
\* client execution the generator ends in WAIT with the adapter never
\* called; with nothing pending the Policy Engine is not invoked at startup.
C8_StartupPendingPass ==
    pc # "start" =>
      IF PendingCallsOf(hist.history) = {}
        THEN \A k \in 1..Len(hist.policy_calls) : hist.policy_calls[k].at # "startup"
        ELSE /\ hist.policy_calls # <<>>
             /\ LET first == hist.policy_calls[1] IN
                /\ first.at = "startup"
                /\ first.adapter_calls = 0
                /\ {first.calls[k] : k \in 1..Len(first.calls)}
                      = PendingCallsOf(hist.history)
                /\ Len(first.calls) = Cardinality(PendingCallsOf(hist.history))
                /\ \A k \in 2..Len(hist.policy_calls) :
                      hist.policy_calls[k].at # "startup"
                /\ ( /\ ~first.raised
                     /\ first.needs_approval \o first.needs_client_execution # <<>> )
                   => /\ tool_phase = WAIT
                      /\ pc = "done"
                      /\ hist.adapter_calls = 0
                      /\ hist.phases = <<>>

\* a history whose pending client call made the run end in WAIT at startup
C8_Witness ==
    /\ pc = "done"
    /\ tool_phase = WAIT
    /\ hist.adapter_calls = 0
    /\ Len(hist.policy_calls) = 1
    /\ hist.policy_calls[1].at = "startup"
    /\ hist.policy_calls[1].needs_client_execution # <<>>
    /\ Last(out).name = "tool-input-available"

\* C9: when the provider reports the stop reason max_tokens, what chat()
\* yields ends with a RUN_ERROR whose code is max_tokens, and the turn
\* yields no RUN_FINISHED, before or after it.
C9_MaxTokensIsRunError ==
    stream.stop_reason = "max_tokens" =>
        /\ out # <<>>
        /\ Last(out).type = "RUN_ERROR"
        /\ Last(out).code = "max_tokens"
        /\ \A j \in (hist.turn_at + 1)..Len(out) : out[j].type # "RUN_FINISHED"
        /\ pc \in {"loop", "done"}

\* a turn that streamed text and was then cut off by max_tokens has ended
C9_Witness ==
    /\ pc = "done"
    /\ stream.stop_reason = "max_tokens"
    /\ Len(out) >= 4
    /\ out[Len(out) - 1].type = "TEXT_MESSAGE_CONTENT"
    /\ Last(out).type = "RUN_ERROR"
    /\ Last(out).code = "max_tokens"

\* C10: after a RUN_ERROR was received from the adapter nothing more is
\* yielded or read from the stream, no tool call executes, nothing is
\* appended to messages and the adapter is not called again.
C10_NothingAfterRunError ==
    [][ (\E j \in 1..Len(out) : out[j].type = "RUN_ERROR") =>
          /\ out' = out
          /\ hist'.received = hist.received
          /\ hist'.events = hist.events
          /\ hist'.executed = hist.executed
          /\ hist'.policy_calls = hist.policy_calls
          /\ hist'.phases = hist.phases
          /\ messages' = messages
          /\ hist'.adapter_calls = hist.adapter_calls ]_vars

\* a run ended by a RUN_ERROR that came after a complete server tool call
\* and RUN_FINISHED(tool_calls) were accumulated: the call was not executed
C10_Witness ==
    /\ pc = "done"
    /\ Last(out).type = "RUN_ERROR"
    /\ finished_event # <<>>
    /\ finished_event[1].finishReason = "tool_calls"
    /\ \E i \in 1..Len(tool_calls_map) : tool_calls_map[i].name = SRV
    /\ hist.executed = <<>>
    /\ hist.adapter_calls = 1
    /\ Len(messages) = 2

\* the assistant messages before position i that declare the call id
DeclaringBefore(i, id) ==
    { j \in 1..(i - 1) :
        /\ messages[j].role = "assistant"
        /\ \E k \in 1..Len(messages[j].toolCalls) : messages[j].toolCalls[k].id = id }

\* C11: every message with role tool has exactly one earlier assistant
\* message whose toolCalls holds an entry with its toolCallId.
C11_ToolMessageAfterDeclaration ==
    \A i \in 1..Len(messages) :
        messages[i].role = "tool" =>
            Cardinality(DeclaringBefore(i, messages[i].toolCallId)) = 1

\* the startup pass appended the tool message of the pending call p1 and a
\* later turn appended the one of its own call t1
C11_Witness ==
    /\ Len(hist.history) = 2
    /\ \E i \in 1..Len(messages) :
          messages[i].role = "tool" /\ messages[i].toolCallId = "p1"
    /\ \E i \in 1..Len(messages) :
          messages[i].role = "tool" /\ messages[i].toolCallId = "t1"

\* the position in the batch of the call with the id
PositionOf(id) == CHOOSE k \in 1..Len(pass.calls) : pass.calls[k].id = id

\* the entries of the list are in the order of their calls in the batch
InBatchOrder(list) ==
    \A i, j \in 1..Len(list) :
        i < j => PositionOf(list[i].tool_call_id) < PositionOf(list[j].tool_call_id)

\* the pass has returned an ExecuteToolCallsResult
PassReturned == pass.phase \in {"returned", "emitted"}

\* the messages appended since chat() was constructed
Appended == SubSeq(messages, Len(hist.history) + 1, Len(messages))

\* C12: execute_tool_calls keeps the input order of the calls within each
\* of results, needs_approval and needs_client_execution, and the tool
\* messages appended after the pass are in the order of their calls.
C12_DeclaredOrderKept ==
    /\ PassReturned =>
          /\ InBatchOrder(pass.result.results)
          /\ InBatchOrder(pass.result.needs_approval)
          /\ InBatchOrder(pass.result.needs_client_execution)
    /\ pass.phase = "emitted" =>
          /\ \A i \in 1..Len(Appended) : Appended[i].role = "tool"
          /\ \A i, j \in 1..Len(Appended) :
                i < j => PositionOf(Appended[i].toolCallId)
                           < PositionOf(Appended[j].toolCallId)
          /\ (pass.result.needs_approval \o pass.result.needs_client_execution = <<>>)
                => Len(Appended) = Len(pass.result.results)

\* two calls resolved in one pass (an approved server tool run, then a
\* client tool whose result the caller supplied): their tool messages
\* follow in that order
C12_Witness ==
    /\ pass.phase = "emitted"
    /\ Len(pass.calls) = 2
    /\ pass.calls[1].name = APPR
    /\ pass.calls[2].name = CLI
    /\ Len(Appended) = 2
    /\ Appended[1].toolCallId = "c1"
    /\ Appended[1].content = << <<"7">> >>
    /\ Appended[2].toolCallId = "c2"
    /\ Appended[2].content = << <<"5">> >>

IsStart(o) == o.op \in {"stream_start", "execute_start"}

\* o is the end of what b began
EndsOp(o, b) ==
    \/ b.op = "stream_start" /\ o.op = "stream_end"
    \/ b.op = "execute_start" /\ o.op = "execute_end" /\ o.id = b.id

\* C13: within one chat() invocation at most one adapter stream or tool
\* execute is in progress at any time: each begins only after the one begun
\* before it has ended, so executes of a batch run one after the other, none
\* overlaps a model stream, and a stream starts only after the batch.
C13_OneAtATime ==
    /\ \A i \in 1..Len(hist.ops) :
          IF i % 2 = 1 THEN IsStart(hist.ops[i])
          ELSE EndsOp(hist.ops[i], hist.ops[i - 1])
    /\ (Len(hist.ops) % 2 = 1) <=> (pc = "stream")
    /\ pc = "stream" => Last(hist.ops).op = "stream_start"

\* a turn, then a batch of two executes, then a second turn
C13_Witness ==
    /\ Len(hist.ops) = 8
    /\ hist.ops[1].op = "stream_start"
    /\ hist.ops[3] = Op("execute_start", "t1")
    /\ hist.ops[5] = Op("execute_start", "t2")
    /\ hist.ops[7].op = "stream_start"

\* where the call id went in the returned result
ResultsOf(id) ==
    { i \in 1..Len(pass.result.results) : pass.result.results[i].tool_call_id = id }
ApprovalAsksOf(id) ==
    { i \in 1..Len(pass.result.needs_approval) :
        pass.result.needs_approval[i].tool_call_id = id }
ClientAsksOf(id) ==
    { i \in 1..Len(pass.result.needs_client_execution) :
        pass.result.needs_client_execution[i].tool_call_id = id }
TimesExecuted(id) ==
    Cardinality({ i \in 1..Len(pass.result.executed) : pass.result.executed[i] = id })

\* the registered tool the call names
ToolOf(tc) == tools[CHOOSE i \in 1..Len(tools) : tools[i].name = tc.name]

\* the recorded approval of the call: "absent", "approved" or "declined"
ApprovalOf(tc) ==
    IF ("approval_" \o tc.id) \notin DOMAIN supplied.approvals THEN "absent"
    ELSE IF supplied.approvals["approval_" \o tc.id] THEN "approved" ELSE "declined"

HasClientResult(tc) == tc.id \in DOMAIN supplied.client_tool_results

\* the one result of the call
TheResult(tc) == pass.result.results[CHOOSE i \in ResultsOf(tc.id) : TRUE]

OnlyResult(tc) ==
    /\ Cardinality(ResultsOf(tc.id)) = 1
    /\ ApprovalAsksOf(tc.id) = {} /\ ClientAsksOf(tc.id) = {}
OnlyApprovalAsk(tc) ==
    /\ Cardinality(ApprovalAsksOf(tc.id)) = 1
    /\ ResultsOf(tc.id) = {} /\ ClientAsksOf(tc.id) = {}
OnlyClientAsk(tc) ==
    /\ Cardinality(ClientAsksOf(tc.id)) = 1
    /\ ResultsOf(tc.id) = {} /\ ApprovalAsksOf(tc.id) = {}

\* the client result if present, else a client execution request
ClientRow(tc) ==
    IF HasClientResult(tc)
      THEN /\ OnlyResult(tc)
           /\ TheResult(tc).result = supplied.client_tool_results[tc.id]
           /\ TheResult(tc).state = NONE
           /\ TimesExecuted(tc.id) = 0
      ELSE OnlyClientAsk(tc) /\ TimesExecuted(tc.id) = 0

\* execute invoked once; what it returned (or the error it raised) is the result
ExecuteRow(tc) ==
    /\ TimesExecuted(tc.id) = 1
    /\ OnlyResult(tc)
    /\ \/ TheResult(tc).state = NONE /\ TheResult(tc).result \in ToolReturns
       \/ /\ TheResult(tc).state = "output-error"
          /\ TheResult(tc).result \in { PyErr(m) : m \in ToolRaises }

DeclinedRow(tc) ==
    /\ OnlyResult(tc)
    /\ TheResult(tc).state = "output-error"
    /\ TheResult(tc).result.t = "error"
    /\ TimesExecuted(tc.id) = 0

\* the row of the decision table for the call
DecisionRow(tc) ==
    LET tool == ToolOf(tc) IN
    IF tool.needs_approval /\ ApprovalOf(tc) = "absent"
      THEN OnlyApprovalAsk(tc) /\ TimesExecuted(tc.id) = 0
    ELSE IF tool.needs_approval /\ ApprovalOf(tc) = "declined" THEN DeclinedRow(tc)
    ELSE IF ~tool.execute THEN ClientRow(tc)
    ELSE ExecuteRow(tc)

\* the call is to a registered tool and its arguments are not JSON
FailsToParse(tc) == IsRegisteredCall(tc) /\ ~ArgsAreJson(tc)

\* the calls the loop of execute_tool_calls got through: all of them, or
\* those before the first one whose arguments made it raise
Processed ==
    { k \in 1..Len(pass.calls) : \A j \in 1..k : ~FailsToParse(pass.calls[j]) }

\* C14: every call to a registered tool with JSON arguments that
\* execute_tool_calls processes is classified by the decision table over
\* (has execute, needs_approval, approval absent / approved / declined,
\* client result present).
C14_DecisionTable ==
    pass.phase \in {"returned", "raised", "emitted"} =>
        \A k \in Processed :
            IsRegisteredCall(pass.calls[k]) => DecisionRow(pass.calls[k])

\* an approved client tool without a client result is asked of the client,
\* an approved server tool is run
C14_Witness ==
    /\ pass.phase = "returned"
    /\ Len(pass.calls) = 2
    /\ pass.calls[1].name = CAPR /\ ApprovalOf(pass.calls[1]) = "approved"
    /\ ~HasClientResult(pass.calls[1])
    /\ OnlyClientAsk(pass.calls[1])
    /\ pass.calls[2].name = APPR /\ ApprovalOf(pass.calls[2]) = "approved"
    /\ pass.result.executed = <<"c2">>
    /\ TheResult(pass.calls[2]).result = PyInt(7)

\* the approval recorded for the call is false
IsDeclined(tc) == ApprovalOf(tc) = "declined"

\* C15 (as stated): whenever approvals["approval_" + toolCallId] is false,
\* the returned results hold exactly one output-error ToolResult for the
\* call, its execute is never invoked, and the call is in neither
\* needs_approval nor needs_client_execution.
C15_DeclinedNeverRuns ==
    PassReturned =>
        \A k \in 1..Len(pass.calls) :
            IsDeclined(pass.calls[k]) => DeclinedRow(pass.calls[k])

\* C15 (amended): that holds for the tools with needs_approval, server and
\* client tools alike, the error being "User declined tool execution"; a
\* registered tool without needs_approval is handled as if no approval were
\* recorded: a server tool is run, a client tool gets its client result or
\* a client execution request.
C15_DeclinedApprovalToolNeverRuns ==
    PassReturned =>
        \A k \in 1..Len(pass.calls) :
            (IsDeclined(pass.calls[k]) /\ IsRegisteredCall(pass.calls[k])) =>
                IF ToolOf(pass.calls[k]).needs_approval
                  THEN /\ DeclinedRow(pass.calls[k])
                       /\ TheResult(pass.calls[k]).result
                            = PyErr(<<"User declined tool execution">>)
                ELSE IF ToolOf(pass.calls[k]).execute
                  THEN ExecuteRow(pass.calls[k])
                  ELSE ClientRow(pass.calls[k])

\* a declined client tool and a declined server tool, both with
\* needs_approval: two output-error results and no execute
C15_Witness ==
    /\ pass.phase = "returned"
    /\ Len(pass.calls) = 2
    /\ pass.calls[1].name = CAPR /\ IsDeclined(pass.calls[1])
    /\ pass.calls[2].name = APPR /\ IsDeclined(pass.calls[2])
    /\ Len(pass.result.results) = 2
    /\ pass.result.results[2].state = "output-error"
    /\ pass.result.executed = <<>>

\* the call is in one of the three lists of the result
IsAccountedFor(tc) ==
    ResultsOf(tc.id) \cup ApprovalAsksOf(tc.id) \cup ClientAsksOf(tc.id) # {}

\* C16: a call whose name is not in the registry gets an output-error
\* ToolResult and never makes execute_tool_calls raise, whatever its
\* arguments are, and the calls after it are still processed.
C16_UnknownToolIsSoft ==
    pass.phase \in {"returned", "raised", "emitted"} =>
        /\ \A k \in Processed :
              ~IsRegisteredCall(pass.calls[k]) =>
                  /\ OnlyResult(pass.calls[k])
                  /\ TheResult(pass.calls[k]).state = "output-error"
                  /\ TheResult(pass.calls[k]).result
                       = PyErr(<<"Unknown tool: ">> \o pass.calls[k].name)
                  /\ TimesExecuted(pass.calls[k].id) = 0
        /\ pass.phase = "raised" =>
              \E k \in 1..Len(pass.calls) : FailsToParse(pass.calls[k])
        /\ PassReturned =>
              \A k \in 1..Len(pass.calls) : IsAccountedFor(pass.calls[k])

\* an unknown tool called with arguments that are not JSON, then a server
\* tool: the pass returned, the first as an error, the second executed
C16_Witness ==
    /\ pass.phase = "returned"
    /\ Len(pass.calls) = 2
    /\ pass.calls[1].name = UNK
    /\ pass.calls[1].arguments = <<"x">>
    /\ pass.calls[2].name = SRV
    /\ pass.result.results[1].state = "output-error"
    /\ pass.result.executed = <<"c2">>
    /\ Len(pass.result.results) = 2

\* a message with role tool among those a step appended
AppendedToolMessage ==
    \E i \in (Len(messages) + 1)..Len(messages') : messages'[i].role = "tool"

\* calls[k] is reached by the pass: no call before it fails to parse
ReachedInBatch(calls, k) == \A j \in 1..(k - 1) : ~FailsToParse(calls[j])

\* C17: when a batch holds a call of a registered tool whose arguments are
\* neither blank nor a JSON document, execute_tool_calls raises and the
\* exception leaves ChatEngine.chat: nothing is yielded (no RUN_ERROR, no
\* result of an earlier call), no tool message of the batch is appended,
\* and no phase is set.  Blank arguments (empty or whitespace only) are
\* decoded as {}: an approval request carries {} as its input and a server
\* tool is executed.
C17_InvalidArgumentsRaise ==
    [][ (ExecutePhaseStep /\ C3_ToolPhaseAllowed) =>
          LET calls == CompleteCalls
              asks == Last(hist'.policy_calls).needs_approval
          IN /\ (\E k \in 1..Len(calls) : FailsToParse(calls[k])) =>
                   /\ pc' = "raised"
                   /\ Last(hist'.policy_calls).raised
                   /\ out' = out
                   /\ Len(messages') = Len(messages) + 1
                   /\ Last(messages').role = "assistant"
                   /\ ~AppendedToolMessage
                   /\ tool_phase' = tool_phase
             /\ \A k \in 1..Len(calls) :
                   ( /\ Strip(calls[k].arguments) = <<>>
                     /\ IsRegisteredCall(calls[k])
                     /\ ReachedInBatch(calls, k) ) =>
                       /\ NeedsApprovalCall(calls[k]) =>
                             \E i \in 1..Len(asks) :
                                 /\ asks[i].tool_call_id = calls[k].id
                                 /\ asks[i].input = PyDict
                       /\ IsServerCall(calls[k]) =>
                             \E i \in (Len(hist.executed) + 1)..Len(hist'.executed) :
                                 hist'.executed[i] = calls[k].id ]_vars

\* a batch of two server calls, the first with empty arguments and executed,
\* the second with the arguments x: the run ended in the exception, with the
\* assistant message as its last message and nothing yielded after the turn
C17_Witness ==
    /\ pc = "raised"
    /\ hist.executed = <<"t1">>
    /\ Last(hist.policy_calls).raised
    /\ Len(Last(hist.policy_calls).calls) = 2
    /\ Last(hist.policy_calls).calls[1].arguments = <<>>
    /\ Last(hist.policy_calls).calls[2].arguments = <<"x">>
    /\ Last(messages).role = "assistant"
    /\ Last(messages).toolCalls = Last(hist.policy_calls).calls
    /\ \A i \in 1..Len(out) : out[i].type \notin {"RUN_ERROR", "TOOL_CALL_END"}

\* the pass of the execute phase a step has just made
ThePass == Last(hist'.policy_calls)

\* the results the pass recorded for the call id
PassResultsOf(id) ==
    { i \in 1..Len(ThePass.results) : ThePass.results[i].tool_call_id = id }

\* the step appended a tool message for the call id that carries the JSON
\* encoding of {"error": <exception text>}
ErrorFoldedBack(id) ==
    \E i \in (Len(messages) + 1)..Len(messages') :
        /\ messages'[i].role = "tool"
        /\ messages'[i].toolCallId = id
        /\ \E m \in ToolRaises : messages'[i].content = <<JsonDumps(PyErr(m))>>

\* an execute of the batch raised
ExecuteRaisedStep ==
    /\ ExecutePhaseStep
    /\ C3_ToolPhaseAllowed
    /\ ThePass.raisers # <<>>

InputIds == { pass.calls[k].id : k \in 1..Len(pass.calls) }

\* C19: after a pass that returns, every input call's id is in exactly one
\* of results, needs_approval and needs_client_execution, once; the lists
\* hold no other id, and their lengths sum to the number of input calls.
C19_ListsPartitionTheBatch ==
    PassReturned =>
        /\ \A id \in InputIds :
              Cardinality(ResultsOf(id)) + Cardinality(ApprovalAsksOf(id))
                + Cardinality(ClientAsksOf(id)) = 1
        /\ \A i \in 1..Len(pass.result.results) :
              pass.result.results[i].tool_call_id \in InputIds
        /\ \A i \in 1..Len(pass.result.needs_approval) :
              pass.result.needs_approval[i].tool_call_id \in InputIds
        /\ \A i \in 1..Len(pass.result.needs_client_execution) :
              pass.result.needs_client_execution[i].tool_call_id \in InputIds
        /\ Len(pass.result.results) + Len(pass.result.needs_approval)
             + Len(pass.result.needs_client_execution) = Len(pass.calls)

\* a returned pass over two calls, one asking for approval and one for
\* client execution, with no result
C19_Witness ==
    /\ PassReturned
    /\ Len(pass.calls) = 2
    /\ Len(pass.result.needs_approval) = 1
    /\ Len(pass.result.needs_client_execution) = 1
    /\ pass.result.results = <<>>
    /\ pass.result.needs_approval[1].tool_call_id
         # pass.result.needs_client_execution[1].tool_call_id

\* the positions of the RUN_STARTED chunks in what the converter returned
RunStartedAt ==
    { i \in 1..Len(converted.chunks) : converted.chunks[i].type = "RUN_STARTED" }

\* C20: once any call was made on a converter (convert_anthropic_event,
\* convert_openai_event, convert_error or convert_event, in any mix), the
\* chunks returned so far, taken together, hold exactly one RUN_STARTED and
\* it is the first of them.
C20_RunStartedOnceAndFirst ==
    converted.calls > 0 => RunStartedAt = {1}

\* convert_error was called first, then an OpenAI chunk that starts a tool
\* call and an Anthropic thinking block were converted by the same converter
C20_Witness ==
    /\ converted.calls = 3
    /\ Len(converted.chunks) = 4
    /\ converted.chunks[1].type = "RUN_STARTED"
    /\ converted.chunks[2].type = "RUN_ERROR"
    /\ converted.chunks[2].error.code = "rate_limit"
    /\ converted.chunks[3].type = "TOOL_CALL_START"
    /\ converted.chunks[3].toolCallId = "call_1"
    /\ converted.chunks[4].type = "STEP_STARTED"

\* every call made on the converter so far ran convert_anthropic_event
AnthropicOnly == converted.methods \subseteq {"anthropic"}

\* the converter was not fed events of both providers
OneProvider == ~({"anthropic", "openai"} \subseteq converted.methods)

\* the positions in the converter's output of the chunks of the given type
\* that carry the tool call id
ToolChunksAt(type, id) ==
    { i \in 1..Len(converted.chunks) :
        converted.chunks[i].type = type /\ converted.chunks[i].toolCallId = id }

\* the tool call ids in the converter's output
ConvertedToolIds ==
    { converted.chunks[i].toolCallId : i \in
        { j \in 1..Len(converted.chunks) :
            converted.chunks[j].type \in
              {"TOOL_CALL_START", "TOOL_CALL_ARGS", "TOOL_CALL_END"} } }

\* C21: in the converter's output for a sequence of Anthropic events, for
\* each tool call id the TOOL_CALL_START precedes every TOOL_CALL_ARGS, every
\* TOOL_CALL_ARGS precedes the TOOL_CALL_END, and there is at most one
\* TOOL_CALL_END (exactly one once the call was ended).
C21_ToolCallChunksInOrder ==
    AnthropicOnly =>
        \A id \in ConvertedToolIds :
            /\ Cardinality(ToolChunksAt("TOOL_CALL_START", id)) = 1
            /\ \A s \in ToolChunksAt("TOOL_CALL_START", id),
                  a \in ToolChunksAt("TOOL_CALL_ARGS", id) : s < a
            /\ \A a \in ToolChunksAt("TOOL_CALL_ARGS", id),
                  e \in ToolChunksAt("TOOL_CALL_END", id) : a < e
            /\ Cardinality(ToolChunksAt("TOOL_CALL_END", id)) <= 1

\* the chunks the latest converter call returned
NewChunks ==
    SubSeq(converted'.chunks, Len(converted.chunks) + 1, Len(converted'.chunks))

\* a chunk of the given type is among those of the sequence
HasChunk(chunks, type) == \E i \in 1..Len(chunks) : chunks[i].type = type

\* some text was converted: a TEXT_MESSAGE_CONTENT with a non-empty delta
SomeTextIn(chunks) ==
    \E i \in 1..Len(chunks) :
        chunks[i].type = "TEXT_MESSAGE_CONTENT" /\ chunks[i].delta # <<>>

\* a call of convert_anthropic_event has returned
AnthropicCall ==
    /\ converted'.calls = converted.calls + 1
    /\ converted'.method = "anthropic"

\* C22: a call of convert_anthropic_event returns a TEXT_MESSAGE_END if and
\* only if its event is a content_block_stop, a TEXT_MESSAGE_START was
\* emitted earlier and the text accumulated so far is non-empty; so no
\* TEXT_MESSAGE_END is emitted while no text delta was converted.
C22_TextMessageEndAtBlockClose ==
    [][ AnthropicCall =>
          ( HasChunk(NewChunks, "TEXT_MESSAGE_END")
            <=> /\ converted'.last = "content_block_stop"
                /\ HasChunk(converted.chunks, "TEXT_MESSAGE_START")
                /\ SomeTextIn(converted.chunks) ) ]_vars

\* a text delta, then the close of its block: the output ends with the one
\* TEXT_MESSAGE_END, after TEXT_MESSAGE_START and the content
C22_Witness ==
    /\ AnthropicOnly
    /\ converted.calls = 2
    /\ converted.last = "content_block_stop"
    /\ Len(converted.chunks) = 4
    /\ converted.chunks[2].type = "TEXT_MESSAGE_START"
    /\ converted.chunks[3].type = "TEXT_MESSAGE_CONTENT"
    /\ converted.chunks[3].delta = <<"a">>
    /\ converted.chunks[4].type = "TEXT_MESSAGE_END"

\* the deltas of the TOOL_CALL_ARGS chunks for the tool call id among the
\* first n chunks of the output, concatenated in emission order
RECURSIVE ArgsDeltasUpTo(_, _)
ArgsDeltasUpTo(n, id) ==
    IF n = 0 THEN <<>>
    ELSE ArgsDeltasUpTo(n - 1, id)
           \o (IF /\ converted.chunks[n].type = "TOOL_CALL_ARGS"
                   /\ converted.chunks[n].toolCallId = id
                  THEN converted.chunks[n].delta ELSE <<>>)

\* the provider named each tool call before it streamed arguments for it:
\* every TOOL_CALL_ARGS follows a TOOL_CALL_START of its toolCallId
CallsAnnounced ==
    \A a \in 1..Len(converted.chunks) :
        converted.chunks[a].type = "TOOL_CALL_ARGS" =>
            \E s \in ToolChunksAt("TOOL_CALL_START", converted.chunks[a].toolCallId) :
                s < a

Terminals(chunks) ==
    { i \in 1..Len(chunks) : chunks[i].type \in {"RUN_FINISHED", "RUN_ERROR"} }

\* C24: an Anthropic event sequence that ends with message_stop has produced
\* exactly one terminal event (RUN_FINISHED or RUN_ERROR).
C24_OneTerminalAtMessageStop ==
    (AnthropicOnly /\ converted.last = "message_stop") =>
        Cardinality(Terminals(converted.chunks)) = 1

\* the part of C24 about message_stop alone: it emits RUN_FINISHED with
\* finishReason stop when no terminal event came before it, and nothing
\* terminal when one did
C24_MessageStopFillsIn ==
    [][(AnthropicCall /\ AnthropicOnly' /\ converted'.last = "message_stop") =>
          IF Terminals(converted.chunks) = {}
            THEN /\ Cardinality(Terminals(NewChunks)) = 1
                 /\ \A i \in Terminals(NewChunks) :
                       /\ NewChunks[i].type = "RUN_FINISHED"
                       /\ NewChunks[i].finishReason = "stop"
            ELSE Terminals(NewChunks) = {}]_vars


\* a step in which the engine read what AnthropicAdapter.chat_stream yielded
\* for one more provider event (or for the client raising)
AnthropicRead ==
    /\ adapter = "anthropic"
    /\ pc = "stream"
    /\ hist'.events = hist.events + 1

\* the chunks the latest chat_stream call has yielded after the step
YieldedAfter == SubSeq(out', hist.turn_at + 1, Len(out'))

\* C25: in every stream of AnthropicAdapter.chat_stream the first event is
\* RUN_STARTED, so RUN_STARTED precedes every other event, a RUN_ERROR that
\* reports a failure before the first provider event included.
C25_RunStartedPrecedesAll ==
    [][AnthropicRead =>
          (YieldedAfter # <<>> => YieldedAfter[1].type = "RUN_STARTED")]_vars

\* C26: when a chat_stream call has run to its end (message_stop delivered
\* or the client raised), its stream holds exactly one terminal event
\* (RUN_FINISHED or RUN_ERROR) and that event is the last one.
C26_OneTerminalAndLast ==
    [][(AnthropicRead /\ stream'.ended) =>
          Terminals(YieldedAfter) = {Len(YieldedAfter)}]_vars


\* the positions of the accumulated calls that have an id and a name with
\* something other than blanks in it
Usable(map) ==
    { i \in 1..Len(map) :
        /\ map[i].id # ""
        /\ \E k \in 1..Len(map[i].name) : map[i].name[k] # " " }

\* the n-th smallest member of a set of positions
NthOf(S, n) == CHOOSE i \in S : Cardinality({ j \in S : j <= i }) = n

\* the position in the fed events of the first START that wrote key `index`
CreatedAt(fed, index) ==
    CHOOSE p \in 1..Len(fed) :
        /\ fed[p].event.type = "TOOL_CALL_START" /\ fed[p].index = index
        /\ \A q \in 1..(p - 1) :
              ~(fed[q].event.type = "TOOL_CALL_START" /\ fed[q].index = index)

\* C27: get_tool_calls returns exactly the accumulated calls with a non-empty
\* id and a non-empty, non-whitespace name, in the order their entries were
\* created, without an error for the others; has_tool_calls is true iff that
\* list is non-empty.
C27_GetToolCallsFilters ==
    LET map == tool_calls_map
        got == get_tool_calls(map)
    IN /\ Len(got) = Cardinality(Usable(map))
       /\ \A n \in 1..Len(got) :
             LET e == map[NthOf(Usable(map), n)]
             IN got[n] = ToolCall(e.id, e.name, e.arguments)
       /\ \A i, j \in 1..Len(map) :
             i < j => CreatedAt(hist.fed, map[i].index) < CreatedAt(hist.fed, map[j].index)
       /\ has_tool_calls(map) <=> Usable(map) # {}

\* a call without an id, a call with a blank name and a complete call were
\* accumulated, and only the complete one is returned
C27_Witness ==
    /\ Len(hist.fed) = 3
    /\ Len(tool_calls_map) = 3
    /\ tool_calls_map[1].id = ""
    /\ tool_calls_map[2].name = BLANK
    /\ get_tool_calls(tool_calls_map) = << ToolCall("t2", SRV, <<>>) >>
    /\ has_tool_calls(tool_calls_map)


\* the position in the fed events of the latest START that wrote key `index`
StartedAt(fed, index) ==
    CHOOSE p \in 1..Len(fed) :
        /\ fed[p].event.type = "TOOL_CALL_START" /\ fed[p].index = index
        /\ \A q \in (p + 1)..Len(fed) :
              ~(fed[q].event.type = "TOOL_CALL_START" /\ fed[q].index = index)

\* the deltas, in arrival order, of the ARGS events with toolCallId `id`
\* among the fed events at positions from..Len(fed)
RECURSIVE DeltasFrom(_, _, _)
DeltasFrom(fed, from, id) ==
    IF from > Len(fed) THEN <<>>
    ELSE (IF fed[from].event.type = "TOOL_CALL_ARGS" /\ fed[from].event.toolCallId = id
            THEN fed[from].event.delta ELSE <<>>)
         \o DeltasFrom(fed, from + 1, id)

\* every entry holds the deltas of the ARGS events with its id since its START
HoldsItsDeltas(fed, map) ==
    \A i \in 1..Len(map) :
        map[i].arguments = DeltasFrom(fed, StartedAt(fed, map[i].index) + 1, map[i].id)

\* no two START events fed so far carry the same toolCallId
DistinctStartIds(fed) ==
    \A p, q \in 1..Len(fed) :
        (/\ p # q
         /\ fed[p].event.type = "TOOL_CALL_START"
         /\ fed[q].event.type = "TOOL_CALL_START")
        => fed[p].event.toolCallId # fed[q].event.toolCallId

\* C28 as stated: after any sequence of START and ARGS events each entry's
\* arguments are the deltas, in arrival order, of the ARGS events carrying
\* its toolCallId received since its START.
C28_EveryEntryHoldsItsDeltas == HoldsItsDeltas(hist.fed, tool_calls_map)

\* the manager was handed a TOOL_CALL_ARGS event in this step
ArgsFed ==
    /\ Len(hist'.fed) = Len(hist.fed) + 1
    /\ Last(hist'.fed).event.type = "TOOL_CALL_ARGS"

\* C28: when the START events carry distinct toolCallIds, each entry's
\* arguments are the deltas, in arrival order, of the ARGS events carrying
\* its id received since its START; an ARGS event whose id matches no entry
\* leaves every entry unchanged, and an ARGS event changes at most one
\* entry (the first in creation order with its id) and only its arguments.
C28_ArgsAccumulatePerEntry ==
    [][/\ DistinctStartIds(hist'.fed) => HoldsItsDeltas(hist'.fed, tool_calls_map')
       /\ ArgsFed =>
            LET id == Last(hist'.fed).event.toolCallId
                hits == { i \in 1..Len(tool_calls_map) : tool_calls_map[i].id = id }
                changed == { i \in 1..Len(tool_calls_map) :
                               tool_calls_map'[i] # tool_calls_map[i] }
            IN /\ Len(tool_calls_map') = Len(tool_calls_map)
               /\ hits = {} => tool_calls_map' = tool_calls_map
               /\ Cardinality(changed) <= 1
               /\ \A i \in changed :
                     /\ i \in hits /\ \A j \in hits : i <= j
                     /\ tool_calls_map'[i] =
                          [tool_calls_map[i] EXCEPT
                              !.arguments = @ \o Last(hist'.fed).event.delta]]_vars

\* two entries with different ids were started, and an ARGS event of the
\* second was appended to it while the first stayed empty
C28_Witness ==
    /\ DistinctStartIds(hist.fed)
    /\ Len(tool_calls_map) = 2
    /\ Last(hist.fed).event.type = "TOOL_CALL_ARGS"
    /\ tool_calls_map[1].arguments = <<>>
    /\ tool_calls_map[2].arguments = <<"b">>


\* the frames that are the completion marker
DoneFrames(frames) == { i \in 1..Len(frames) : frames[i] = "data: [DONE]\n\n" }

\* an SSE frame that carries a JSON object: "data: {", ..., "}" and a blank line
IsDataFrame(frame) ==
    \E type \in {"RUN_STARTED", "TEXT_MESSAGE_CONTENT", "RUN_FINISHED"},
       rest \in {"", ", \"delta\": \"a\"", ", \"delta\": \"[DONE]\""} :
        frame = "data: {\"type\": \"" \o type \o "\"" \o rest \o "}\n\n"

\* C29: for every finite input stream, the empty one included,
\* stream_chunks_to_sse yields one 'data: <json>' frame per input chunk, in
\* input order, and then exactly one 'data: [DONE]' frame as its last item.
C29_OneFramePerChunkThenDone ==
    /\ sse.state \in {"iterating", "raised"} =>
          /\ Len(sse.frames) = Len(sse.read)
          /\ DoneFrames(sse.frames) = {}
    /\ sse.state = "done" =>
          /\ Len(sse.frames) = Len(sse.read) + 1
          /\ DoneFrames(sse.frames) = {Len(sse.frames)}
    /\ \A i \in 1..Len(sse.read) :
          /\ IsDataFrame(sse.frames[i])
          /\ sse.frames[i] = format_sse_chunk(sse.read[i])
          /\ \A j \in 1..Len(sse.read) :
                sse.read[i] # sse.read[j] => sse.frames[i] # sse.frames[j]

\* a stream of three chunks was formatted and ended
C29_Witness ==
    /\ sse.state = "done"
    /\ Len(sse.read) = 3
    /\ sse.read[2].delta = "[DONE]"
    /\ Len(sse.frames) = 4

\* the empty stream was formatted: the completion marker alone
C29_WitnessEmpty ==
    /\ sse.state = "done"
    /\ sse.read = <<>>
    /\ sse.frames = << "data: [DONE]\n\n" >>


\* the engine read a RUN_FINISHED with finishReason stop while the cached
\* finished event of the iteration says tool_calls
StopReadAfterToolCalls ==
    /\ pc = "stream"
    /\ finished_event # <<>>
    /\ finished_event[1].finishReason = "tool_calls"
    /\ Len(out') = Len(out) + 1
    /\ Last(out').type = "RUN_FINISHED"
    /\ Last(out').finishReason = "stop"

\* the chunks of the latest adapter call hold a RUN_FINISHED with
\* finishReason tool_calls and, after it, one with finishReason stop
StopCameAfterToolCalls ==
    \E i, j \in (hist.turn_at + 1)..Len(out) :
        /\ i < j
        /\ out[i].type = "RUN_FINISHED" /\ out[i].finishReason = "tool_calls"
        /\ out[j].type = "RUN_FINISHED" /\ out[j].finishReason = "stop"

\* C30: a RUN_FINISHED(stop) that arrives after a RUN_FINISHED(tool_calls)
\* in the same iteration leaves the cached finished event as it is, the
\* tool_calls event, and the EXECUTE_TOOL_CALLS phase that follows hands
\* the accumulated complete tool calls to execute_tool_calls.
C30_StopKeepsCachedToolCalls ==
    [][ /\ StopReadAfterToolCalls =>
              /\ finished_event' = finished_event
              /\ tool_calls_map' = tool_calls_map
        /\ (/\ ExecutePhaseStep
            /\ StopCameAfterToolCalls
            /\ tools # <<>>
            /\ CompleteCalls # <<>>) =>
              /\ finished_event[1].finishReason = "tool_calls"
              /\ Len(hist'.policy_calls) = Len(hist.policy_calls) + 1
              /\ Last(hist'.policy_calls).calls = CompleteCalls ]_vars

\* a turn yielded RUN_FINISHED(tool_calls) and then RUN_FINISHED(stop), and
\* the execute phase after it handed its tool call to execute_tool_calls
C30_Witness ==
    /\ hist.adapter_calls = 1
    /\ Len(hist.policy_calls) = 1
    /\ hist.policy_calls[1].calls # <<>>
    /\ last_finish_reason = "stop"
    /\ StopCameAfterToolCalls

\* in `chunks`, every TOOL_CALL_START is followed at once by the first
\* TOOL_CALL_ARGS of its call or, no TOOL_CALL_ARGS of the call before it,
\* by a TOOL_CALL_END of the call whose input is the empty object
StartsAreInPlace(chunks) ==
    \A s \in 1..Len(chunks) :
        chunks[s].type = "TOOL_CALL_START" =>
            /\ \A t \in 1..Len(chunks) :
                  (chunks[t].type = "TOOL_CALL_START"
                   /\ chunks[t].toolCallId = chunks[s].toolCallId) => t = s
            /\ s < Len(chunks)
            /\ chunks[s + 1].toolCallId = chunks[s].toolCallId
            /\ \/ chunks[s + 1].type = "TOOL_CALL_ARGS"
               \/ /\ chunks[s + 1].type = "TOOL_CALL_END"
                  /\ chunks[s + 1].input = PyDict
            /\ \A a \in 1..(s - 1) :
                  ~(chunks[a].type \in {"TOOL_CALL_ARGS", "TOOL_CALL_END"}
                    /\ chunks[a].toolCallId = chunks[s].toolCallId)

\* C31: a tool-use block start emits no TOOL_CALL_START; the TOOL_CALL_START
\* of a tool call is emitted exactly once, immediately before its first
\* TOOL_CALL_ARGS or, when no argument fragment arrived, at block close
\* immediately before its TOOL_CALL_END, whose input is then the empty object.
C31_StartIsDeferred ==
    [][(AnthropicCall /\ converted'.methods \subseteq {"anthropic"}) =>
          /\ converted'.last = "content_block_start" =>
                ~HasChunk(NewChunks, "TOOL_CALL_START")
          /\ HasChunk(NewChunks, "TOOL_CALL_START") =>
                converted'.last \in {"content_block_delta", "content_block_stop"}
          /\ StartsAreInPlace(converted'.chunks)
          /\ \A e \in 1..Len(converted'.chunks) :
                converted'.chunks[e].type \in {"TOOL_CALL_ARGS", "TOOL_CALL_END"} =>
                    \E s \in 1..(e - 1) :
                        /\ converted'.chunks[s].type = "TOOL_CALL_START"
                        /\ converted'.chunks[s].toolCallId =
                              converted'.chunks[e].toolCallId]_vars

\* a tool-use block was opened and closed with no argument fragment: its
\* TOOL_CALL_START came at the block close, right before the TOOL_CALL_END
C31_Witness ==
    /\ AnthropicOnly
    /\ converted.calls = 2
    /\ converted.last = "content_block_stop"
    /\ Len(converted.chunks) = 3
    /\ converted.chunks[2].type = "TOOL_CALL_START"
    /\ converted.chunks[3].type = "TOOL_CALL_END"
    /\ converted.chunks[3].input = PyDict

\* the deltas of the TEXT_MESSAGE_CONTENT chunks among the first n of
\* `chunks`, concatenated in order
RECURSIVE TextDeltasUpTo(_, _)
TextDeltasUpTo(chunks, n) ==
    IF n = 0 THEN <<>>
    ELSE TextDeltasUpTo(chunks, n - 1)
           \o (IF chunks[n].type = "TEXT_MESSAGE_CONTENT" THEN chunks[n].delta
               ELSE <<>>)

\* what _stream_model_response has after reading the converter's output as
\* the stream of a turn that begins now
ReadConverted ==
    Consume([TurnState EXCEPT !.accumulated_content = <<>>,
                              !.finished_event = <<>>],
            <<>>, converted.chunks)

\* C32: every TOOL_CALL_ARGS the converter emits carries in args all deltas
\* emitted so far for its toolCallId, this one included; every
\* TEXT_MESSAGE_CONTENT carries in content all text deltas emitted so far in
\* the run; and after a turn the engine's accumulated assistant text is the
\* concatenation of the turn's text deltas, for the converter's stream and
\* for the stream the engine itself is reading.
C32_RunningTotals ==
    /\ (OneProvider /\ CallsAnnounced) =>
          \A i \in 1..Len(converted.chunks) :
              converted.chunks[i].type = "TOOL_CALL_ARGS" =>
                  converted.chunks[i].args =
                      ArgsDeltasUpTo(i, converted.chunks[i].toolCallId)
    /\ \A i \in 1..Len(converted.chunks) :
          converted.chunks[i].type = "TEXT_MESSAGE_CONTENT" =>
              converted.chunks[i].content = TextDeltasUpTo(converted.chunks, i)
    /\ ReadConverted.s.accumulated_content =
          TextDeltasUpTo(ReadConverted.yielded, Len(ReadConverted.yielded))
    /\ accumulated_content =
          TextDeltasUpTo(SubSeq(out, hist.turn_at + 1, Len(out)),
                         Len(out) - hist.turn_at)

\* two argument fragments of one call and a text delta were converted; the
\* second TOOL_CALL_ARGS carries both fragments
C32_Witness ==
    /\ AnthropicOnly
    /\ \E i \in 1..Len(converted.chunks) :
          /\ converted.chunks[i].type = "TOOL_CALL_ARGS"
          /\ converted.chunks[i].delta = <<"1">>
          /\ converted.chunks[i].args = OBJ \o <<"1">>

\* C33: for a message_delta with a stop reason the converter emits
\* RUN_FINISHED with finishReason tool_calls for tool_use, stop for end_turn
\* and the stop reason itself for any other, except max_tokens, for which it
\* emits RUN_ERROR with code max_tokens and no RUN_FINISHED.
C33_StopReasonMapping ==
    [][(AnthropicCall /\ converted'.last = "message_delta") =>
          LET reason == converted'.given.stop_reason
              ends == Terminals(NewChunks)
          IN IF reason = NONE THEN ends = {}
             ELSE /\ Cardinality(ends) = 1
                  /\ \A i \in ends :
                        IF reason = "max_tokens"
                          THEN /\ NewChunks[i].type = "RUN_ERROR"
                               /\ NewChunks[i].error.code = "max_tokens"
                          ELSE /\ NewChunks[i].type = "RUN_FINISHED"
                               /\ NewChunks[i].finishReason =
                                    CASE reason = "tool_use" -> "tool_calls"
                                      [] reason = "end_turn" -> "stop"
                                      [] OTHER -> reason]_vars

\* a message_delta with the stop reason stop_sequence was converted: the
\* RUN_FINISHED carries stop_sequence
C33_Witness ==
    /\ converted.last = "message_delta"
    /\ converted.given.stop_reason = "stop_sequence"
    /\ converted.chunks # <<>>
    /\ Last(converted.chunks).type = "RUN_FINISHED"
    /\ Last(converted.chunks).finishReason = "stop_sequence"

\* C34: in the converter's output for a sequence of Anthropic events every
\* STEP_FINISHED is preceded by a STEP_STARTED that carries the same stepId.
C34_StepFinishedHasItsStart ==
    AnthropicOnly =>
        \A f \in 1..Len(converted.chunks) :
            converted.chunks[f].type = "STEP_FINISHED" =>
                \E s \in 1..(f - 1) :
                    /\ converted.chunks[s].type = "STEP_STARTED"
                    /\ converted.chunks[s].stepId = converted.chunks[f].stepId

\* the rest of C34: a thinking block start, and nothing else, emits one
\* STEP_STARTED, and every thinking delta one STEP_FINISHED; once a thinking
\* block was started, the STEP_FINISHED of a delta carries the stepId of the
\* latest STEP_STARTED
C34_OneStepStartedPerBlock ==
    [][AnthropicCall =>
          LET started == { i \in 1..Len(NewChunks) : NewChunks[i].type = "STEP_STARTED" }
              finished == { i \in 1..Len(NewChunks) : NewChunks[i].type = "STEP_FINISHED" }
              thinking_start == /\ converted'.last = "content_block_start"
                                /\ converted'.given.block_type = "thinking"
              thinking_delta == /\ converted'.last = "content_block_delta"
                                /\ converted'.given.delta_type = "thinking_delta"
          IN /\ Cardinality(started) = IF thinking_start THEN 1 ELSE 0
             /\ Cardinality(finished) = IF thinking_delta THEN 1 ELSE 0
             /\ (thinking_delta /\ converter.step_id # NONE) =>
                   \A i \in finished : NewChunks[i].stepId = converter.step_id]_vars

\* C35: every RUN_ERROR that reports a run-level failure carries a code, the
\* error's own code or else its class name, never an absent or null one;
\* here for the events of AnthropicAdapter.chat_stream that the engine yields.
C35_RunErrorHasCode ==
    \A i \in 1..Len(out) : out[i].type = "RUN_ERROR" => out[i].code # NONE

\* the part of C35 about convert_error: its RUN_ERROR carries the error's
\* code when it has one and its class name otherwise
C35_ConvertErrorHasCode ==
    [][converted'.method = "error" /\ converted'.calls = converted.calls + 1 =>
          /\ Cardinality(Terminals(NewChunks)) = 1
          /\ \A i \in Terminals(NewChunks) :
                /\ NewChunks[i].type = "RUN_ERROR"
                /\ NewChunks[i].error.code # NONE
                /\ NewChunks[i].error.code =
                     IF converted'.given.code # NONE THEN converted'.given.code
                     ELSE converted'.given.class]_vars

\* what the claim compares of an event: its type, the tool call it belongs
\* to, its delta and its finish reason
RECURSIVE Canonical(_)
Canonical(chunks) ==
    IF chunks = <<>> THEN <<>>
    ELSE LET c == Head(chunks)
         IN << [type |-> c.type,
                toolCallId |-> IF c.type \in {"TOOL_CALL_START", "TOOL_CALL_ARGS",
                                              "TOOL_CALL_END"}
                                 THEN c.toolCallId ELSE "",
                delta |-> c.delta,
                finishReason |-> c.finishReason] >>
            \o Canonical(Tail(chunks))

\* C36: fed the same Anthropic provider events, AnthropicAdapter.chat_stream
\* and StreamChunkConverter.convert_anthropic_event yield the same sequence
\* of canonical events.
C36_AdapterMatchesConverter == Canonical(out) = Canonical(converted.chunks)

\* the step ran one execution pass, at startup or in a tool phase
PassStep == Len(hist'.policy_calls) = Len(hist.policy_calls) + 1

\* the step yielded a TOOL_CALL_END for the call id and appended a tool
\* message for it
ResultProduced(id) ==
    /\ \E i \in (Len(out) + 1)..Len(out') :
          out'[i].type = "TOOL_CALL_END" /\ out'[i].toolCallId = id
    /\ \E i \in (Len(messages) + 1)..Len(messages') :
          messages'[i].role = "tool" /\ messages'[i].toolCallId = id

\* C37: whenever an execution pass that returns invoked a server tool's
\* execute, the engine yields a TOOL_CALL_END for that call and appends a
\* tool message for it before the generator ends, also when another call of
\* the batch needs approval or client execution.
C37_ExecutedResultsAreProduced ==
    [][ (PassStep /\ ~ThePass.raised) =>
          \A k \in 1..Len(ThePass.executed) : ResultProduced(ThePass.executed[k])
      ]_vars

\* the same guarantee for the passes after which no call waits: what the
\* engine does provide
C37_ProducedWhenNothingWaits ==
    [][ (PassStep /\ ~ThePass.raised /\ ~ThePass.wait) =>
          \A k \in 1..Len(ThePass.executed) : ResultProduced(ThePass.executed[k])
      ]_vars

\* how many chunks of the type the converter has returned
ChunksOfType(type) ==
    Cardinality({ i \in 1..Len(converted.chunks) : converted.chunks[i].type = type })

\* C38: the converter's output for one run holds at most one
\* TEXT_MESSAGE_END per TEXT_MESSAGE_START, however many content blocks
\* close after text was produced.
C38_TextMessageClosedOnce ==
    ChunksOfType("TEXT_MESSAGE_END") <= ChunksOfType("TEXT_MESSAGE_START")

\* the text message is opened at most once in a run: what the converter
\* does keep
C38_TextMessageOpenedOnce == ChunksOfType("TEXT_MESSAGE_START") <= 1

\* the first sequence is an initial part of the second
IsPrefixOf(s, t) == Len(s) <= Len(t) /\ SubSeq(t, 1, Len(s)) = s

\* C39: ChatEngine only appends to the conversation: every step leaves the
\* message list an extension of its earlier value, and the list changes only
\* in the startup pending-call pass and in an EXECUTE_TOOL_CALLS phase, never
\* while a PROCESS_CHAT phase is begun, streamed or ended.
C39_MessagesOnlyAppended ==
    [][ /\ IsPrefixOf(messages, messages')
        /\ messages' # messages =>
              \/ pc = "start"
              \/ pc = "loop" /\ cycle_phase = EXECUTE_TOOL_CALLS
        /\ (pc = "stream" \/ (pc = "loop" /\ cycle_phase = PROCESS_CHAT)) =>
              messages' = messages
      ]_vars

\* the startup pass appended the results of the pending calls, a model turn
\* was streamed, and its tool phase appended the assistant message and the
\* results after them
C39_Witness ==
    /\ Len(hist.policy_calls) = 2
    /\ hist.policy_calls[1].at = "startup"
    /\ hist.policy_calls[2].at = "loop"
    /\ hist.adapter_calls >= 1
    /\ Len(messages) > hist.policy_calls[2].appended + 1
    /\ hist.policy_calls[2].appended > Len(hist.history)
    /\ IsPrefixOf(hist.history, messages)

\* the generator of chat() has ended, by returning or by raising
ChatEnded == pc \in {"done", "raised"}

\* C40: with the default loop strategy max_iterations(5), and every adapter
\* stream and every execute terminating, chat() eventually ends, and it makes
\* at most 5 Model Adapter calls.
C40_ChatTerminates ==
    /\ <>ChatEnded
    /\ [](hist.adapter_calls <= DefaultMaxIterations)

\* the loop ran its five iterations: five model turns, each followed by an
\* executed tool phase, and the iteration bound ended the generator
C40_Witness ==
    /\ pc = "done"
    /\ hist.adapter_calls = DefaultMaxIterations
    /\ iteration_count = DefaultMaxIterations
    /\ tool_phase = CONTINUE

====
